---- MODULE Spec2Model ----
(***************************************************************************)
(* Model of the ChatJeePT Gmail extension.                                 *)
(*                                                                         *)
(*   page context      src/extension/content.js  (JeepBeachContentScript,  *)
(*                     GmailDOM, StorageManager)                           *)
(*   privileged context src/unnamed/part_001     (JeepBeachBackground)     *)
(*                     src/unnamed/part_000 and src/extension/utils/llm.js *)
(*                     hold two further, combined variants of it           *)
(*   content cache     src/extension/utils/siteScrape.js (SiteScraper)     *)
(*   completion client src/extension/utils/llm.js (LLMProvider)            *)
(*                                                                         *)
(* Three specifications share the variables:                               *)
(*   SpecPage   the page agents of one tab, the message channel and the    *)
(*              result messages pushed to the tab                          *)
(*   SpecBg     the orchestrator handling draft requests step by step      *)
(*   SpecCache  the content cache under gets, refreshes and clock advances *)
(***************************************************************************)
EXTENDS Integers, Sequences, FiniteSets, TLC

VARIABLES
  agents,          \* page: every JeepBeachContentScript constructed in the tab, oldest first
  jeepBeachScript, \* page: index of the agent the global `jeepBeachScript` refers to
  domButton,       \* page: agent whose element #jeepbeach-draft-button is in the document (0: none)
  pendingInit,     \* page: pending setTimeout(initializeScript, 1000) timers
  location,        \* page: location.href, as the view it names
  composeBox,      \* page: text of the visible compose surface, or NoElement
  inboundMessage,  \* page: whether getLastInboundMessage() finds a non-empty message
  toast,           \* page: the element #jeepbeach-toast, or NoToast
  dom,             \* page: the observers, the timers and the elements of the tab, in time
  outbox,          \* channel: JB_DRAFT_REQUEST messages sent and not yet handled
  inbox,           \* channel: messages pushed to the tab and not yet delivered
  sentBy,          \* history: sentBy[r] is the agent that dispatched request r
  sync,            \* chrome.storage.sync
  cache,           \* chrome.storage.local.jeepBeachCache
  now,             \* Date.now()
  variant,         \* which of the repository's background scripts is loaded
  bg,              \* orchestrator: the draft-request handler in progress
  tabMessages,     \* orchestrator: messages pushed to the sender's tab for the request in progress
  netLog,          \* orchestrator: network calls issued for the request in progress
  fetches,         \* cache: content fetches in flight
  lastGet,         \* cache: outcome of the most recently completed getJeepBeachContent
  call             \* the most recent call of a function examined on its own, with its result

pageVars ==
  <<agents, jeepBeachScript, domButton, pendingInit, location, composeBox, inboundMessage, toast,
    dom>>
chanVars == <<outbox, inbox, sentBy>>
storeVars == <<sync, cache, now>>
bgVars == <<variant, bg, tabMessages, netLog>>
cacheVars == <<fetches, lastGet, call>>
vars == <<pageVars, chanVars, storeVars, bgVars, cacheVars>>

----------------------------------------------------------------------------
\* Bounds of the model

MaxAgents == 2     \* page agents constructed in the tab
MaxRequests == 3   \* draft requests started in the tab
MaxFetches == 1    \* content fetches in flight at once
MaxTtlSpans == 1   \* the clock runs for this many cache lifetimes
MaxMillis == 1     \* and this many single milliseconds past each

----------------------------------------------------------------------------
\* Values

NoElement == "null"
Undefined == "undefined"

\* GmailDOM.createFloatingButton: button.textContent = 'ChatJeePT'
CreatedLabel == "ChatJeePT"
\* handleDraftRequest: this.floatingButton.textContent = 'Generating...'
GeneratingLabel == "Generating..."
\* handleDraftResponse / handleDraftError: this.floatingButton.textContent = 'ChatJeePeeTee'
RestoredLabel == "ChatJeePeeTee"

NoComposeBoxError == "No compose box found"
NoEmailContextError == "No email context found"
ApiKeyError == "API key not configured. Please set it in the extension options."
ContextInvalidatedError == "Extension context invalidated. Please reload the extension."
NoError == "none"

\* StorageManager.syncKeys
syncKeys == {"apiKey", "tone", "fallbackMessage", "jeepBeachUrls", "useGmailApi"}

\* every key some part of the extension writes to chrome.storage.sync
StoreKeys == syncKeys \cup {"provider"}

\* the default jeepBeachUrls: URLs joined with '\n' (two of the four are kept)
DefaultUrls == "https://jeepbeach.com/\nhttps://jeepbeach.com/faq/"

\* StorageManager.getDefaultSettings
getDefaultSettings ==
  [apiKey |-> "", tone |-> "friendly, concise, cheerful + helpful",
   fallbackMessage |-> "Thanks for reaching out!",
   jeepBeachUrls |-> DefaultUrls, useGmailApi |-> "false"]

\* chrome.storage holds JSON values: every value is modelled by its JSON text, a key
\* that is not stored reads as Undefined
EmptyStore == [k \in StoreKeys |-> Undefined]

\* chrome.storage.sync.set(data): the keys of data are overwritten, the others kept
storageSet(store, data) ==
  [k \in StoreKeys |-> IF k \in DOMAIN data THEN data[k] ELSE store[k]]

\* StorageManager.getSyncData: chrome.storage.sync.get(this.syncKeys)
getSyncData(store) == [k \in syncKeys |-> store[k]]

\* JeepBeachContentScript.getSettings: the same five keys, read by the page agent
getSettings(store) ==
  [k \in {"apiKey", "tone", "fallbackMessage", "jeepBeachUrls", "useGmailApi"} |-> store[k]]

\* !settings.apiKey
NoApiKey_undefinedOnly(settings) == settings.apiKey = Undefined
NoApiKey(settings) == settings.apiKey \in {Undefined, ""}

\* options.js saveSettings: the form is validated, then written with setSyncData
saveSettings(store, form) ==
  IF form.apiKey = "" \/ form.tone = "" \/ form.fallbackMessage = ""
  THEN store
  ELSE storageSet(store, [apiKey |-> form.apiKey, provider |-> form.provider,
                          tone |-> form.tone, fallbackMessage |-> form.fallbackMessage,
                          useGmailApi |-> form.useGmailApi])

\* options.js resetDefaults: setSyncData(getDefaultSettings())
resetDefaults(store) == storageSet(store, getDefaultSettings)

\* StorageManager.initializeSettings: defaults fill the keys that are undefined
initializeSettings(store) ==
  IF \E k \in syncKeys : getSyncData(store)[k] = Undefined
  THEN storageSet(store, [k \in syncKeys |->
         IF getSyncData(store)[k] = Undefined THEN getDefaultSettings[k]
         ELSE getSyncData(store)[k]])
  ELSE store

----------------------------------------------------------------------------
\* Page context: GmailDOM

\* GmailDOM.showToast: the text is kept as the pieces of its template literal
Toast(message, type) == [message |-> message, type |-> type]
NoToast == Toast(<<>>, "none")
ErrorToast(error) == Toast(<<"Error: ", error>>, "error")
AlreadyProcessingToast == Toast(<<"Already processing a request...">>, "warning")

\* What the document lets insertTextAtCursor do
InsertEnvs == {"execCommand", "selectionInBox", "selectionElsewhere", "append", "throws"}

\* GmailDOM.insertTextAtCursor(composeBox, text) on a compose box holding `content`
insertTextAtCursor(content, text, env) ==
  IF content = NoElement \/ text = "" THEN [ok |-> FALSE, content |-> content]
  ELSE IF env = "execCommand" THEN [ok |-> TRUE, content |-> text]
  ELSE IF env = "selectionInBox" THEN [ok |-> TRUE, content |-> text]
  ELSE IF env = "selectionElsewhere" THEN [ok |-> TRUE, content |-> content]
  ELSE IF env = "append" THEN [ok |-> TRUE, content |-> text]
  ELSE [ok |-> FALSE, content |-> content]

\* no timer is pending
NoTimer == -1

\* the tab after the first initializeScript(): the observer of agent 1 is connected,
\* its control is in the document and hidden, the navigation observer has seen the
\* first location, and no timer is pending
DomAtRest ==
  [lastUrl |-> "inbox",          \* lastUrl of the navigation observer
   initTimers |-> <<>>,          \* ms left of each setTimeout(initializeScript, 1000)
   observer |-> <<TRUE>>,        \* per agent: this.observer is connected
   checkTimeout |-> <<NoTimer>>, \* per agent: ms left of this.checkTimeout
   display |-> <<"none">>,       \* per agent: style.display of this.floatingButton
   buttons |-> <<1>>,            \* the elements with id jeepbeach-draft-button, by owner
   sinceMutation |-> NoTimer,    \* history: ms since the last DOM mutation (NoTimer: none yet)
   checks |-> 0,                 \* history: checkComposeBox runs since that mutation
   toasts |-> <<>>]              \* every toast element created, oldest first

----------------------------------------------------------------------------
\* Page context: JeepBeachContentScript

\* constructor and createFloatingButton
newAgent ==
  [isProcessing |-> FALSE, disabled |-> FALSE, textContent |-> CreatedLabel,
   awaiting |-> 0,              \* handleDraftRequest calls suspended at `await this.getSettings()`
   labelBefore |-> CreatedLabel \* history: the label when the latest request started
  ]

Agents == 1..Len(agents)

\* handleDraftRequest: if (this.isProcessing) { showToast(...); return; }
reentrancyGuard_off(agent) == FALSE
reentrancyGuard(agent) == agent.isProcessing

\* handleDraftRequest: isProcessing = true; disabled = true; textContent = 'Generating...'
startProcessing(agent) ==
  [agent EXCEPT !.isProcessing = TRUE, !.disabled = TRUE, !.textContent = GeneratingLabel,
                !.labelBefore = agent.textContent]

\* handleDraftResponse / handleDraftError: the three assignments that open both
restoreButton_disabled(agent) ==
  [agent EXCEPT !.isProcessing = FALSE, !.textContent = RestoredLabel]
restoreButton(agent) ==
  [agent EXCEPT !.isProcessing = FALSE, !.disabled = FALSE, !.textContent = RestoredLabel]

\* handleDraftRequest: the two checks made before the first await, in source order
firstSyncError_swapped(box, inbound) ==
  IF ~inbound THEN NoEmailContextError
  ELSE IF box = NoElement THEN NoComposeBoxError
  ELSE NoError
firstSyncError(box, inbound) ==
  IF box = NoElement THEN NoComposeBoxError
  ELSE IF ~inbound THEN NoEmailContextError
  ELSE NoError

\* requests this tab has started: dispatched, or suspended before the dispatch
RECURSIVE SumAwaiting(_)
SumAwaiting(n) == IF n = 0 THEN 0 ELSE agents[n].awaiting + SumAwaiting(n - 1)
Started == Len(sentBy) + SumAwaiting(Len(agents))

\* the views the tab moves between: the thread list, and one thread opened with ?th=
Locations == {"inbox", "thread-1"}

\* GmailDOM.getThreadIdFromUrl: params.get('th') || null
getThreadIdFromUrl(url) == IF url = "inbox" THEN NoElement ELSE url

\* the object passed to chrome.runtime.sendMessage (id: history, the dispatch number)
DraftRequest(id, settings, threadId) ==
  [type |-> "JB_DRAFT_REQUEST", id |-> id, emailContext |-> "DOM context",
   tone |-> settings.tone, fallbackMessage |-> settings.fallbackMessage,
   jeepBeachUrls |-> settings.jeepBeachUrls, useGmailApi |-> settings.useGmailApi,
   threadId |-> threadId]

\* handleDraftRequest, from the call to `await this.getSettings()` (or to its return)
handleDraftRequest(a) ==
  /\ a \in Agents
  /\ a = domButton
  /\ UNCHANGED <<jeepBeachScript, domButton, pendingInit, location, composeBox, inboundMessage, dom>>
  /\ UNCHANGED <<chanVars, storeVars, bgVars, cacheVars>>
  /\ IF reentrancyGuard(agents[a])
     THEN /\ toast' = AlreadyProcessingToast
          /\ UNCHANGED agents
     ELSE LET err == firstSyncError(composeBox, inboundMessage) IN
          IF err # NoError
          THEN /\ agents' = [agents EXCEPT ![a] = restoreButton(startProcessing(@))]
               /\ toast' = ErrorToast(err)
          ELSE /\ Started < MaxRequests
               /\ agents' = [agents EXCEPT ![a] =
                               [startProcessing(@) EXCEPT !.awaiting = @ + 1]]
               /\ UNCHANGED toast

\* handleDraftRequest, from the return of getSettings() to the end
getSettingsResolved(a) ==
  /\ a \in Agents
  /\ agents[a].awaiting > 0
  /\ UNCHANGED <<jeepBeachScript, domButton, pendingInit, location, composeBox, inboundMessage, dom>>
  /\ UNCHANGED <<inbox, storeVars, bgVars, cacheVars>>
  /\ LET settings == getSettings(sync)
         resumed == [agents[a] EXCEPT !.awaiting = @ - 1] IN
     IF NoApiKey(settings)
     THEN /\ agents' = [agents EXCEPT ![a] = restoreButton(resumed)]
          /\ toast' = ErrorToast(ApiKeyError)
          /\ UNCHANGED <<outbox, sentBy>>
     ELSE \E sendThrows \in BOOLEAN :
          IF sendThrows
          THEN /\ agents' = [agents EXCEPT ![a] = restoreButton(resumed)]
               /\ toast' = ErrorToast(ContextInvalidatedError)
               /\ UNCHANGED <<outbox, sentBy>>
          ELSE /\ agents' = [agents EXCEPT ![a] = resumed]
               /\ outbox' = outbox \cup {DraftRequest(Len(sentBy) + 1, settings,
                                                      getThreadIdFromUrl(location))}
               /\ sentBy' = Append(sentBy, a)
               /\ UNCHANGED toast

\* JB_DRAFT_RESPONSE / JB_DRAFT_ERROR as pushed with chrome.tabs.sendMessage (re: history)
DraftResponse(draft, re) == [type |-> "JB_DRAFT_RESPONSE", draft |-> draft, error |-> "", re |-> re]
DraftError(error, re) == [type |-> "JB_DRAFT_ERROR", draft |-> "", error |-> error, re |-> re]

\* what the orchestrator can push for one request (its steps are the actions of SpecBg)
Results(re) == {DraftResponse("Generated draft", re), DraftError("LLM API error", re)}

\* JeepBeachBackground.handleDraftRequest: the one push that ends the handling of a request
backgroundResult ==
  \E m \in outbox : \E result \in Results(m.id) :
    /\ outbox' = outbox \ {m}
    /\ inbox' = Append(inbox, result)
    /\ UNCHANGED <<sentBy, pageVars, storeVars, bgVars, cacheVars>>

\* setupMessageListener: every agent constructed in the tab added a listener to
\* chrome.runtime.onMessage in setup(), and destroy() removes none
Listeners == Agents

\* a message pushed to the tab runs every listener; each runs handleDraftResponse or
\* handleDraftError, the last one to run decides the compose box and the toast
deliverToTab ==
  /\ inbox # <<>>
  /\ LET m == Head(inbox) IN
     /\ inbox' = Tail(inbox)
     /\ agents' = [i \in Agents |-> IF i \in Listeners THEN restoreButton(agents[i])
                                    ELSE agents[i]]
     /\ IF m.type = "JB_DRAFT_ERROR"
        THEN /\ toast' = ErrorToast(IF m.error = "" THEN "Unknown error occurred" ELSE m.error)
             /\ UNCHANGED composeBox
        ELSE IF m.draft = ""
        THEN /\ toast' = Toast(<<"No draft generated">>, "warning")
             /\ UNCHANGED composeBox
        ELSE IF composeBox = NoElement
        THEN /\ toast' = Toast(<<"Compose box not found">>, "error")
             /\ UNCHANGED composeBox
        ELSE \E env \in InsertEnvs :
               LET r == insertTextAtCursor("", m.draft, env) IN
               /\ composeBox' = r.content
               /\ toast' = IF r.ok THEN Toast(<<"Draft inserted successfully!">>, "success")
                           ELSE Toast(<<"Failed to insert draft">>, "error")
  /\ UNCHANGED <<jeepBeachScript, domButton, pendingInit, location, inboundMessage, dom>>
  /\ UNCHANGED <<outbox, sentBy, storeVars, bgVars, cacheVars>>

\* the navigation observer: url !== lastUrl, so setTimeout(initializeScript, 1000)
navigate ==
  /\ Len(agents) + pendingInit < MaxAgents
  /\ pendingInit' = pendingInit + 1
  /\ \E url \in Locations \ {location} : location' = url
  /\ UNCHANGED <<agents, jeepBeachScript, domButton, composeBox, inboundMessage, toast, dom>>
  /\ UNCHANGED <<chanVars, storeVars, bgVars, cacheVars>>

\* JeepBeachContentScript.destroy: this.floatingButton.remove()
destroy(button, a) == IF button = a THEN 0 ELSE button

\* JeepBeachContentScript.createFloatingButton: the element with the id is replaced
createFloatingButton(button, a) == a

\* initializeScript, run by the timer
initializeScript ==
  /\ pendingInit > 0
  /\ pendingInit' = pendingInit - 1
  /\ agents' = Append(agents, newAgent)
  /\ jeepBeachScript' = Len(agents) + 1
  /\ domButton' = createFloatingButton(destroy(domButton, jeepBeachScript), Len(agents) + 1)
  /\ UNCHANGED <<location, composeBox, inboundMessage, toast, dom>>
  /\ UNCHANGED <<chanVars, storeVars, bgVars, cacheVars>>

\* the host page: the compose surface opens, closes or is typed in; a message is shown or not
ComposeTexts == {NoElement, ""}
domChange ==
  /\ \E box \in ComposeTexts, inbound \in BOOLEAN :
       /\ <<box, inbound>> # <<composeBox, inboundMessage>>
       /\ composeBox' = box
       /\ inboundMessage' = inbound
  /\ UNCHANGED <<agents, jeepBeachScript, domButton, pendingInit, location, toast, dom>>
  /\ UNCHANGED <<chanVars, storeVars, bgVars, cacheVars>>

\* the settings surface: the form is saved, or the defaults are restored
PageForm ==
  [apiKey |-> "sk-test", provider |-> "openai", tone |-> getDefaultSettings.tone,
   fallbackMessage |-> getDefaultSettings.fallbackMessage, useGmailApi |-> "false"]
optionsSave(form) ==
  /\ sync' = saveSettings(sync, form)
  /\ sync' # sync
  /\ UNCHANGED <<cache, now, pageVars, chanVars, bgVars, cacheVars>>
optionsReset ==
  /\ sync' = resetDefaults(sync)
  /\ sync' # sync
  /\ UNCHANGED <<cache, now, pageVars, chanVars, bgVars, cacheVars>>

----------------------------------------------------------------------------
\* Content cache: StorageManager (cache part) and SiteScraper

\* StorageManager.isCacheExpired: const fourHours = 4 * 60 * 60 * 1000
fourHours == 4 * 60 * 60 * 1000

\* SiteScraper constructor: this.maxTextLength = 6000
maxTextLength == 6000

\* StorageManager.getSiteCache yields result.jeepBeachCache || null
NoCache == [present |-> FALSE, text |-> <<>>, updatedAt |-> 0]

\* StorageManager.setSiteCache(text) at Date.now() = t
setSiteCache(text, t) == [present |-> TRUE, text |-> text, updatedAt |-> t]

\* StorageManager.isCacheExpired(cache) at Date.now() = t
isCacheExpired_never(c, t) == ~c.present
isCacheExpired_inclusive(c, t) ==
  \/ ~c.present
  \/ c.updatedAt = 0
  \/ t - c.updatedAt >= fourHours
isCacheExpired(c, t) ==
  \/ ~c.present
  \/ c.updatedAt = 0
  \/ t - c.updatedAt > fourHours

\* A text is kept as its consecutive pieces, each with its length in characters
Chunk(of, len) == [of |-> of, len |-> len]
EmptyText == <<>>

RECURSIVE TextLength(_)
TextLength(text) == IF text = <<>> THEN 0 ELSE Head(text).len + TextLength(Tail(text))

\* text.substring(0, n)
RECURSIVE substring(_, _)
substring(text, n) ==
  IF text = <<>> \/ n <= 0 THEN <<>>
  ELSE IF Head(text).len <= n THEN <<Head(text)>> \o substring(Tail(text), n - Head(text).len)
  ELSE <<Chunk(Head(text).of, n)>>

\* text.trim(): the pieces that are whitespace only are the "\n\n" before a header
IsSpace(chunk) == chunk.of = <<"\n\n">>
RECURSIVE trimStart(_)
trimStart(text) ==
  IF text # <<>> /\ IsSpace(Head(text)) THEN trimStart(Tail(text)) ELSE text
RECURSIVE trimEnd(_)
trimEnd(text) ==
  IF text # <<>> /\ IsSpace(text[Len(text)]) THEN trimEnd(SubSeq(text, 1, Len(text) - 1))
  ELSE text
trim(text) == trimEnd(trimStart(text))

\* the source lists a settings value can hold, split as
\* urls.split('\n').filter(url => url.trim())
splitUrls(urls) ==
  IF urls = DefaultUrls THEN <<"https://jeepbeach.com/", "https://jeepbeach.com/faq/">>
  ELSE IF urls = "https://jeepbeach.com/" THEN <<"https://jeepbeach.com/">>
  ELSE IF urls = "https://jeepbeach.com/\n \nhttps://jeepbeach.com/faq/\n"
  THEN <<"https://jeepbeach.com/", "https://jeepbeach.com/faq/">>
  ELSE IF urls = "https://jeepbeach.com/\nhttps://jeepbeach.com/faq/\nhttps://jeepbeach.com/events/"
  THEN <<"https://jeepbeach.com/", "https://jeepbeach.com/faq/", "https://jeepbeach.com/events/">>
  ELSE <<>>

\* url.length
UrlLength(url) ==
  IF url = "https://jeepbeach.com/" THEN 22
  ELSE IF url = "https://jeepbeach.com/faq/" THEN 26
  ELSE 29

\* the lengths of cleaned page text a fetch can yield; 0: the fetch failed, or the page is empty
PageLens == {0, 40}

\* SiteScraper.fetchAndParseUrl(url) when the fetch yields len characters of cleaned text
fetchAndParseUrl_placeholder(url, len) ==
  <<Chunk(<<"text of ", url>>, IF len = 0 THEN 1 ELSE len)>>
fetchAndParseUrl(url, len) == IF len = 0 THEN EmptyText ELSE <<Chunk(<<"text of ", url>>, len)>>

\* `\n\n--- Content from ${url} ---\n\n`
SectionHeader(url) ==
  <<Chunk(<<"\n\n">>, 2), Chunk(<<"--- Content from ", url, " ---\n\n">>, UrlLength(url) + 23)>>

\* fetchJeepBeachContent: the loop that combines the contents
RECURSIVE combine(_, _, _)
combine(urlArray, contents, i) ==
  IF i > Len(urlArray) THEN EmptyText
  ELSE (IF contents[i] # EmptyText THEN SectionHeader(urlArray[i]) \o contents[i]
        ELSE EmptyText) \o combine(urlArray, contents, i + 1)

\* fetchJeepBeachContent: truncation and the final trim
truncateAndTrim_untrimmed(combinedText) ==
  IF TextLength(combinedText) > maxTextLength
  THEN substring(combinedText, maxTextLength) \o <<Chunk(<<"...">>, 3)>>
  ELSE combinedText
truncateAndTrim(combinedText) ==
  trim(IF TextLength(combinedText) > maxTextLength
       THEN substring(combinedText, maxTextLength) \o <<Chunk(<<"...">>, 3)>>
       ELSE combinedText)

\* SiteScraper.getFallbackJeepBeachContent (part_000): the built-in text, 1320 characters
getFallbackJeepBeachContent == <<Chunk(<<"built-in fallback text">>, 1320)>>

\* SiteScraper.fetchJeepBeachContent(urls) of utils/siteScrape.js; lens[i] is what the
\* fetch of the i-th source yields
fetchJeepBeachContent(urls, lens) ==
  LET urlArray == splitUrls(urls)
      contents == [i \in 1..Len(urlArray) |-> fetchAndParseUrl(urlArray[i], lens[i])]
  IN truncateAndTrim(combine(urlArray, contents, 1))

\* SiteScraper.fetchJeepBeachContent(urls) of the combined script part_000
fetchJeepBeachContentOrFallback(urls, lens) ==
  LET urlArray == splitUrls(urls)
      contents == [i \in 1..Len(urlArray) |-> fetchAndParseUrl(urlArray[i], lens[i])]
      combined == combine(urlArray, contents, 1)
  IN truncateAndTrim(IF combined = EmptyText THEN getFallbackJeepBeachContent ELSE combined)

\* what the fetches of a source list can yield
FetchOutcomes(urls) == [1..Len(splitUrls(urls)) -> PageLens]

\* the background scripts of the repository
\*   "part_001": JeepBeachBackground with the SiteScraper of utils/siteScrape.js
\*   "part_000": the combined script whose getJeepBeachContent returns the fallback
\*   "llm.js":   the combined script with the static JeepBeachContentProvider
Variants == {"part_001", "part_000", "llm.js"}

\* getJeepBeachContent of utils/siteScrape.js: the cached entry is served
servesFromCache(c, t, forceRefresh) == ~forceRefresh /\ c.present /\ ~isCacheExpired(c, t)

----------------------------------------------------------------------------
\* Privileged context: JeepBeachBackground and LLMProvider

\* the fields of a JB_DRAFT_REQUEST that handleDraftRequest reads
\* payload is history: the settings the message carries, which the handler leaves unread
NoPayload ==
  [tone |-> Undefined, fallbackMessage |-> Undefined, jeepBeachUrls |-> Undefined,
   useGmailApi |-> Undefined]
Request(id, threadId, isRewriteMode) ==
  [id |-> id, emailContext |-> "DOM context", threadId |-> threadId,
   isRewriteMode |-> isRewriteMode, payload |-> NoPayload]
NoRequest == Request(0, NoElement, FALSE)
Requests == {Request(1, threadId, isRewriteMode) :
               threadId \in {getThreadIdFromUrl(url) : url \in Locations},
               isRewriteMode \in BOOLEAN}

\* handleDraftRequest: if (settings.useGmailApi && request.threadId)
lookupAttempted_modeOnly(settings, request) == settings.useGmailApi = "true"
lookupAttempted(settings, request) ==
  settings.useGmailApi = "true" /\ request.threadId # NoElement

\* handleDraftRequest: if (!request.isRewriteMode)
resolvesContent_always(request) == TRUE
resolvesContent(request) == ~request.isRewriteMode

\* how fetchGmailContext(threadId) can end, by the throw (or the return) it reaches
\* what extractMessageBody returns when it finds no body, or catches an exception
Placeholders == {"No message body found", "Error extracting message body"}

\* fetchGmailContext returned: a decoded body, or one of the placeholders
returnsBody(outcome) == outcome \in {"body"} \cup Placeholders

GmailOutcomes ==
  Placeholders \cup
  {"No token received", "Gmail API error: thread", "No messages found in thread",
   "No inbound messages found", "Gmail API error: message", "body"}

\* the requests fetchGmailContext has issued when it ends that way
GmailCalls(outcome) ==
  IF outcome = "No token received" THEN <<>>
  ELSE IF outcome = "Gmail API error: message" \/ returnsBody(outcome)
  THEN <<"gmail threads.get", "gmail messages.get">>
  ELSE <<"gmail threads.get">>

\* handleDraftRequest: emailContext after the try/catch around fetchGmailContext
contextAfterLookup(emailContext, outcome) ==
  IF outcome = "body" THEN "Gmail message body"
  ELSE IF outcome \in Placeholders THEN outcome
  ELSE emailContext

\* JeepBeachContentProvider.getJeepBeachContent (llm.js): the static text
getStaticJeepBeachContent == <<Chunk(<<"static content">>, 1320)>>

\* LLMProvider.getBaseUrl
getBaseUrl(provider) ==
  IF provider = "anthropic" THEN "https://api.anthropic.com/v1"
  ELSE "https://api.openai.com/v1"

\* LLMProvider constructor: constructor(apiKey, provider = 'openai')
LLMProvider(apiKey, provider) ==
  LET p == IF provider = Undefined THEN "openai" ELSE provider IN
  [apiKey |-> apiKey, provider |-> p, baseUrl |-> getBaseUrl(p)]
NoProvider == [apiKey |-> NoElement, provider |-> NoElement, baseUrl |-> NoElement]

\* LLMProvider.buildRequestBody: the envelope, by its model and the place of the
\* system prompt
buildRequestBody(provider) ==
  IF provider = "anthropic"
  THEN [model |-> "claude-3-haiku-20240307", system |-> "system field"]
  ELSE [model |-> "gpt-4o-mini", system |-> "first message"]

\* LLMProvider.callLLM: the request it sends
CompletionRequest(llm) ==
  [url |-> <<llm.baseUrl, "/chat/completions">>, body |-> buildRequestBody(llm.provider)]
NoCompletionRequest == [url |-> <<>>, body |-> [model |-> "", system |-> ""]]

\* what the completion endpoint can answer: fetch rejects, a non-success status, a
\* body without choices, or a first choice with this content
LLMResponses ==
  {"Failed to fetch", "status 401", "no choices", "empty choices", "", "  ", "  Draft text  "}

\* LLMProvider.buildUserPrompt: the template literal, as its fixed pieces and the
\* four values it interpolates
buildUserPrompt_noFallback(emailContext, jeepBeachText, tone, fallbackMessage) ==
  <<"Email to reply to:\n---\n", emailContext,
    "\n---\n\nJeepBeach site knowledge (snippets):\n---\n", jeepBeachText,
    "\n---\n\nTone: ", tone,
    "\n\nWrite a short reply grounded ONLY in the snippets above.",
    "",
    "\nReturn only the email body, no greetings/headers unless the email clearly expects it.">>
buildUserPrompt(emailContext, jeepBeachText, tone, fallbackMessage) ==
  <<"Email to reply to:\n---\n", emailContext,
    "\n---\n\nJeepBeach site knowledge (snippets):\n---\n", jeepBeachText,
    "\n---\n\nTone: ", tone,
    "\n\nWrite a short reply grounded ONLY in the snippets above. If nothing relevant, use the fallback pattern:\n\"",
    fallbackMessage,
    "\"\nReturn only the email body, no greetings/headers unless the email clearly expects it.">>

\* content.trim()
trimContent(content) ==
  IF content \in {"", "  "} THEN "" ELSE IF content = "  Draft text  " THEN "Draft text"
  ELSE content

\* LLMProvider.generateDraft from callLLM on: the draft, or the message of the error thrown
callLLM_oneErrorKind(response) ==
  IF response = "Failed to fetch" THEN [draft |-> "", error |-> "Failed to fetch"]
  ELSE IF response = "status 401"
  THEN [draft |-> "", error |-> "LLM API error: 401 - Unauthorized"]
  ELSE IF response \in {"no choices", "empty choices"}
  THEN [draft |-> "", error |-> "LLM API error: 401 - Unauthorized"]
  ELSE [draft |-> response, error |-> NoError]
callLLM(response) ==
  IF response = "Failed to fetch" THEN [draft |-> "", error |-> "Failed to fetch"]
  ELSE IF response = "status 401"
  THEN [draft |-> "", error |-> "LLM API error: 401 - Unauthorized"]
  ELSE IF response \in {"no choices", "empty choices"}
  THEN [draft |-> "", error |-> "Invalid LLM response"]
  ELSE IF trimContent(response) = "" THEN [draft |-> "", error |-> "Empty response from LLM"]
  ELSE [draft |-> trimContent(response), error |-> NoError]

\* handleDraftRequest: the messages it sends to sender.tab.id, from the end of the try
\* block or from the catch block
routed_dropped(draft, error, re) ==
  IF error = NoError THEN <<DraftResponse(draft, re)>> ELSE <<>>
routed(draft, error, re) ==
  IF error = NoError THEN <<DraftResponse(draft, re)>> ELSE <<DraftError(error, re)>>

\* the argument of a sendResponse call: { context }, { success: true, message },
\* { success: true, response } or { error }, with the value as its pieces
Reply(shape, value) == [shape |-> shape, value |-> value]

\* sendResponse(message) of the listener's reply callback
sendResponse_dropped(replies, message) == replies
sendResponse(replies, message) == Append(replies, message)

\* LLMProvider.testConnection with an apiKey: the test text, or the wrapped error
testConnection(response) ==
  LET result == callLLM(response) IN
  IF result.error # NoError THEN Reply("error", <<"LLM test failed: ", result.error>>)
  ELSE Reply("success response", <<result.draft>>)

\* the handler at rest; failedStep, lookup, response and prompt are history: the step
\* whose exception reached the catch block, how the rich-context lookup ended, what
\* the completion endpoint answered, and the user prompt sent to it
BgIdle ==
  [pc |-> "idle", type |-> "none", replies |-> <<>>,
   request |-> NoRequest, settings |-> [k \in syncKeys |-> Undefined],
   emailContext |-> "", jeepBeachContent |-> EmptyText, draft |-> "", error |-> NoError,
   failedStep |-> "none", lookup |-> "not attempted", response |-> "not called",
   prompt |-> <<>>,
   cacheReads |-> 0, cacheWrites |-> 0,  \* history: getSiteCache and setSiteCache calls
   llmProvider |-> NoProvider,           \* this.llmProvider
   storedProvider |-> Undefined,         \* history: the provider setting in the store
   completion |-> NoCompletionRequest]   \* history: the completion request sent

----------------------------------------------------------------------------
\* Values of the variables a specification does not use

NoGet ==
  [kind |-> "none", by |-> "", forceRefresh |-> FALSE, hit |-> FALSE, threw |-> FALSE,
   entry |-> [present |-> FALSE, text |-> <<>>, age |-> 0],
   text |-> EmptyText, calls |-> 0, wrote |-> FALSE]

StoreAtRest == /\ cache = NoCache /\ now = 1
BgAtRest == /\ variant = "part_001" /\ bg = BgIdle /\ tabMessages = <<>> /\ netLog = <<>>
NoCall == [fn |-> "none"]
CacheAtRest == /\ fetches = {} /\ lastGet = NoGet /\ call = NoCall
PageAtRest ==
  /\ agents = <<newAgent>> /\ jeepBeachScript = 1 /\ domButton = 1 /\ pendingInit = 0
  /\ location = "inbox" /\ dom = DomAtRest
  /\ composeBox = NoElement /\ inboundMessage = FALSE /\ toast = NoToast
ChanAtRest == /\ outbox = {} /\ inbox = <<>> /\ sentBy = <<>>

----------------------------------------------------------------------------
\* SpecPage: one tab. The content script has run initializeScript() once, the
\* settings store holds what initializeSettings() left on first install.

PageInit ==
  /\ PageAtRest /\ ChanAtRest /\ StoreAtRest /\ BgAtRest /\ CacheAtRest
  /\ sync = initializeSettings(EmptyStore)

PageNext ==
  \/ \E a \in Agents : handleDraftRequest(a)
  \/ \E a \in Agents : getSettingsResolved(a)
  \/ backgroundResult
  \/ deliverToTab
  \/ navigate
  \/ initializeScript
  \/ domChange
  \/ optionsSave(PageForm)

SpecPage == PageInit /\ [][PageNext]_vars

Idle(agent) == ~agent.isProcessing /\ ~agent.disabled

\* requests whose result message has not been delivered to the tab yet
Unanswered == {m.id : m \in outbox} \cup {inbox[i].re : i \in 1..Len(inbox)}
Outstanding(a) == {r \in 1..Len(sentBy) : sentBy[r] = a /\ r \in Unanswered}

\* C1: a requestDraft() invocation made while the agent's isProcessing is true is
\* rejected locally: the step dispatches nothing, starts nothing that could dispatch
\* later, leaves the control's disabled flag and label as the first request left
\* them, and only shows the "already processing" notice.
C1_ReentrantRejected ==
  [][\A a \in Agents :
       (agents[a].isProcessing /\ handleDraftRequest(a)) =>
         /\ outbox' = outbox /\ sentBy' = sentBy
         /\ agents' = agents
         /\ toast' = AlreadyProcessingToast]_vars

\* C1 witness: the notice is up while the first request is still outstanding
C1_Witness ==
  /\ toast = AlreadyProcessingToast
  /\ \E a \in Agents : /\ agents[a].isProcessing /\ agents[a].disabled
                        /\ agents[a].textContent = GeneratingLabel
                        /\ Outstanding(a) # {}

\* C2: every page agent has at most one DraftRequest that it dispatched and that
\* has not been answered yet.
C2_AtMostOneOutstanding == \A a \in Agents : Cardinality(Outstanding(a)) <= 1

\* C3: every result an agent acts on (resetting its flag, inserting text or showing
\* an error) is the result of a request that this agent dispatched.
C3_ResultsPaired ==
  [][deliverToTab => \A a \in Listeners : sentBy[Head(inbox).re] = a]_vars

\* C5: while a request is outstanding the control is disabled and its label is
\* changed; once a result has been observed the control is enabled, the flag is
\* cleared and the label is again the label the control had before the request.
C5_ControlRestored ==
  \A a \in Agents :
    /\ agents[a].isProcessing =>
         agents[a].disabled /\ agents[a].textContent # agents[a].labelBefore
    /\ ~agents[a].isProcessing =>
         ~agents[a].disabled /\ agents[a].textContent = agents[a].labelBefore

NoKeyStored == sync["apiKey"] \in {Undefined, ""}

\* C6: requestDraft() checks compose surface, then inbound message, then
\* credential; a failed check sends nothing, shows its own error toast and leaves
\* the agent idle; a DRAFT_REQUEST is added to the channel only by a call that
\* passed the first two checks and then found a credential.
C6_LocalChecks ==
  [][/\ \A a \in Agents :
          /\ (~agents[a].isProcessing /\ handleDraftRequest(a)) =>
                /\ outbox' = outbox /\ sentBy' = sentBy
                /\ composeBox = NoElement =>
                     /\ toast' = ErrorToast(NoComposeBoxError)
                     /\ Idle(agents'[a]) /\ agents'[a].awaiting = agents[a].awaiting
                /\ (composeBox # NoElement /\ ~inboundMessage) =>
                     /\ toast' = ErrorToast(NoEmailContextError)
                     /\ Idle(agents'[a]) /\ agents'[a].awaiting = agents[a].awaiting
                /\ (composeBox # NoElement /\ inboundMessage) =>
                     agents'[a].awaiting = agents[a].awaiting + 1
          /\ (NoKeyStored /\ getSettingsResolved(a)) =>
                /\ outbox' = outbox /\ sentBy' = sentBy
                /\ toast' = ErrorToast(ApiKeyError)
                /\ Idle(agents'[a])
     /\ (outbox' \ outbox # {}) =>
          /\ ~NoKeyStored
          /\ \E a \in Agents : agents[a].awaiting > 0 /\ getSettingsResolved(a)]_vars

\* C6 witness: the second check failed; nothing was ever sent and the agent is idle
C6_Witness ==
  /\ toast = ErrorToast(NoEmailContextError)
  /\ composeBox # NoElement /\ ~inboundMessage
  /\ sentBy = <<>> /\ outbox = {}
  /\ \A a \in Agents : Idle(agents[a]) /\ agents[a].awaiting = 0

C26_InsertedExactlyDraft ==
  [][(deliverToTab /\ Head(inbox).type = "JB_DRAFT_RESPONSE") =>
       LET draft == Head(inbox).draft IN
       /\ draft = "" =>
            toast' = Toast(<<"No draft generated">>, "warning") /\ composeBox' = composeBox
       /\ (draft # "" /\ composeBox = NoElement) =>
            toast' = Toast(<<"Compose box not found">>, "error") /\ composeBox' = composeBox
       /\ (draft # "" /\ composeBox # NoElement) =>
            /\ toast' \in {Toast(<<"Draft inserted successfully!">>, "success"),
                           Toast(<<"Failed to insert draft">>, "error")}
            /\ toast'.type = "success" => composeBox' = draft]_vars

\* C33: a result delivered after a re-initialisation is handled by the live agent
\* only: an agent torn down by destroy() is left as it was, and the draft of a
\* request dispatched by a torn-down agent is not put in the compose surface.
C33_OnlyLiveAgentHandles ==
  [][deliverToTab =>
       /\ \A a \in Agents \ {jeepBeachScript} : agents'[a] = agents[a]
       /\ sentBy[Head(inbox).re] # jeepBeachScript => composeBox' = composeBox]_vars

\* C40: when the insertion routine reports failure on a successful result, the text
\* that was in the compose surface is still there.
C40_FailedInsertKeepsText ==
  [][(deliverToTab /\ Head(inbox).type = "JB_DRAFT_RESPONSE"
        /\ toast' = Toast(<<"Failed to insert draft">>, "error"))
       => composeBox' = composeBox]_vars

\* values chrome.storage.sync can hold under the key apiKey
Credentials == {Undefined, "", "sk-test", "sk-other"}

\* C20: the page agent does not read the credential: the keys its getSettings reads
\* from storage do not include apiKey, and what handleDraftRequest does once the
\* settings are there is the same whatever credential the store holds.
C20_PageNeverReadsCredential ==
  [][\A a \in Agents : getSettingsResolved(a) =>
       /\ "apiKey" \notin DOMAIN getSettings(sync)
       /\ \A key \in Credentials :
            NoApiKey(getSettings([sync EXCEPT !["apiKey"] = key])) = NoApiKey(getSettings(sync))]_vars

----------------------------------------------------------------------------
\* SpecCache: the single cache entry under getJeepBeachContent calls, cache
\* refreshes and the clock. A miss or a refresh fetches its sources and writes
\* the entry when the fetches have completed; other calls and the clock may run
\* in between.

CacheVariants == {"part_001", "part_000"}

\* history: what a completed getJeepBeachContent call observed and did
\*   entry: the stored entry when the call read the cache, with its age then
\*   calls: the network calls it issued; wrote: whether it wrote the entry
Observed(kind, forceRefresh, hit, threw, entry, text, calls, wrote) ==
  [kind |-> kind, by |-> variant, forceRefresh |-> forceRefresh, hit |-> hit, threw |-> threw,
   entry |-> entry, text |-> text, calls |-> calls, wrote |-> wrote]

\* the entry as a call finds it at Date.now() = t
Found(c, t) == [present |-> c.present, text |-> c.text,
                age |-> IF c.present THEN t - c.updatedAt ELSE 0]
NotRead == [present |-> FALSE, text |-> EmptyText, age |-> 0]

FreeFetchIds == (1..MaxFetches) \ {f.id : f \in fetches}
Fetch(op, forceRefresh, urls, entry) ==
  [id |-> CHOOSE i \in FreeFetchIds : \A j \in FreeFetchIds : i <= j,
   op |-> op, forceRefresh |-> forceRefresh, urls |-> urls, entry |-> entry]

\* SiteScraper.getJeepBeachContent(urls, forceRefresh), up to its return or to the
\* start of its fetches; urls is settings.jeepBeachUrls as handleDraftRequest passes it
getJeepBeachContent(forceRefresh) ==
  LET urls == getSyncData(sync)["jeepBeachUrls"] IN
  /\ IF variant = "part_000"
     THEN \* part_000: return this.getFallbackJeepBeachContent()
          /\ lastGet' = Observed("get", forceRefresh, FALSE, FALSE, Found(cache, now),
                                 getFallbackJeepBeachContent, 0, FALSE)
          /\ UNCHANGED fetches
     ELSE IF servesFromCache(cache, now, forceRefresh)
     THEN /\ lastGet' = Observed("get", forceRefresh, TRUE, FALSE, Found(cache, now),
                                 cache.text, 0, FALSE)
          /\ UNCHANGED fetches
     ELSE IF urls = Undefined
     THEN \* urls.split throws a TypeError
          /\ lastGet' = Observed("get", forceRefresh, FALSE, TRUE, Found(cache, now),
                                 EmptyText, 0, FALSE)
          /\ UNCHANGED fetches
     ELSE /\ FreeFetchIds # {}
          /\ fetches' = fetches \cup {Fetch("get", forceRefresh, urls, Found(cache, now))}
          /\ UNCHANGED lastGet
  /\ UNCHANGED <<call, storeVars, bgVars, pageVars, chanVars>>

\* JeepBeachBackground.handleRefreshSiteCache, up to the start of its fetches
handleRefreshSiteCache ==
  LET urls == getSyncData(sync)["jeepBeachUrls"] IN
  /\ urls # Undefined  \* otherwise urls.split throws, and the error is the response
  /\ FreeFetchIds # {}
  /\ fetches' = fetches \cup {Fetch("refresh", TRUE, urls, NotRead)}
  /\ UNCHANGED lastGet
  /\ UNCHANGED <<call, storeVars, bgVars, pageVars, chanVars>>

\* the fetches of a call complete: fetchJeepBeachContent returns, setSiteCache stores
fetchesCompleted ==
  \E f \in fetches : \E lens \in FetchOutcomes(f.urls) :
    LET content == IF variant = "part_000" THEN fetchJeepBeachContentOrFallback(f.urls, lens)
                   ELSE fetchJeepBeachContent(f.urls, lens) IN
    /\ fetches' = fetches \ {f}
    /\ cache' = setSiteCache(content, now)
    /\ lastGet' = IF f.op = "get"
                  THEN Observed("get", f.forceRefresh, FALSE, FALSE, f.entry, content,
                                Len(splitUrls(f.urls)), TRUE)
                  ELSE lastGet
    /\ UNCHANGED <<call, sync, now, bgVars, pageVars, chanVars>>

\* time passes
tick ==
  /\ \/ /\ (now - 1) % fourHours < MaxMillis
        /\ now' = now + 1
     \/ /\ now + fourHours <= MaxTtlSpans * fourHours + MaxMillis + 1
        /\ now' = now + fourHours
  /\ UNCHANGED <<sync, cache, bgVars, cacheVars, pageVars, chanVars>>

\* JeepBeachBackground.initializeSettings, started by the constructor, completes
settingsInitialized ==
  /\ sync' = initializeSettings(sync)
  /\ sync' # sync
  /\ UNCHANGED <<cache, now, bgVars, cacheVars, pageVars, chanVars>>

CacheInit ==
  /\ PageAtRest /\ ChanAtRest /\ StoreAtRest /\ CacheAtRest
  /\ variant \in CacheVariants /\ bg = BgIdle /\ tabMessages = <<>> /\ netLog = <<>>
  /\ sync = EmptyStore

CacheNext ==
  \/ \E forceRefresh \in BOOLEAN : getJeepBeachContent(forceRefresh)
  \/ handleRefreshSiteCache
  \/ fetchesCompleted
  \/ tick
  \/ settingsInitialized

SpecCache == CacheInit /\ [][CacheNext]_vars

FreshEntry(g) == g.entry.present /\ g.entry.age <= fourHours

\* C9: a get without forceRefresh that finds a fresh entry returns that entry's
\* text unchanged, issues no network call and does not rewrite the entry.
C9_FreshEntryServed ==
  (lastGet.kind = "get" /\ ~lastGet.forceRefresh /\ FreshEntry(lastGet)) =>
    /\ lastGet.text = lastGet.entry.text
    /\ lastGet.calls = 0
    /\ ~lastGet.wrote

\* C10: with the getJeepBeachContent of utils/siteScrape.js, text returned on the
\* cache-hit path comes from an entry with now - updatedAt <= TTL; an absent entry
\* or one older than the TTL is a miss: the sources are fetched afresh and the
\* fetched text, not the stored one, is returned and stored.
C10_ExpiredNeverServed ==
  (lastGet.kind = "get" /\ lastGet.by = "part_001" /\ ~lastGet.threw) =>
    /\ lastGet.hit => FreshEntry(lastGet) /\ lastGet.text = lastGet.entry.text
    /\ ~FreshEntry(lastGet) =>
         /\ ~lastGet.hit
         /\ lastGet.calls = Len(splitUrls(getDefaultSettings.jeepBeachUrls))
         /\ lastGet.wrote
         /\ cache.present

\* C10 witness: a get found an entry older than the TTL, fetched and stored afresh
C10_Witness ==
  /\ lastGet.kind = "get" /\ lastGet.by = "part_001" /\ ~lastGet.forceRefresh
  /\ lastGet.entry.present /\ lastGet.entry.age > fourHours
  /\ ~lastGet.hit /\ lastGet.calls > 0 /\ lastGet.wrote

AtBoundary(g) ==
  /\ g.kind = "get" /\ g.by = "part_001" /\ ~g.forceRefresh /\ ~g.threw
  /\ g.entry.present /\ g.entry.age = fourHours

\* C11 as claimed: an entry whose age is exactly the TTL is expired; a get that
\* finds it does not serve it.
C11_BoundaryExpired == AtBoundary(lastGet) => ~lastGet.hit

\* C11 as amended: an entry whose age is exactly the TTL is still fresh, the get
\* serves its text with no network call; one millisecond later it is expired and
\* the get fetches.
C11_BoundaryServed ==
  /\ AtBoundary(lastGet) =>
       lastGet.hit /\ lastGet.text = lastGet.entry.text /\ lastGet.calls = 0
  /\ (lastGet.kind = "get" /\ lastGet.by = "part_001" /\ ~lastGet.threw
        /\ lastGet.entry.present /\ lastGet.entry.age = fourHours + 1) =>
       ~lastGet.hit /\ lastGet.calls > 0

\* C11 witness: a get served an entry that was exactly one TTL old
C11_Witness == AtBoundary(lastGet) /\ lastGet.hit /\ lastGet.entry.text # EmptyText

\* C37: the stored cache entry never has an empty text, whatever gets and
\* refreshes ran, so no cache hit hands out an empty reference text.
C37_EntryNeverEmpty ==
  /\ cache.present => cache.text # EmptyText
  /\ (lastGet.kind = "get" /\ lastGet.hit) => lastGet.text # EmptyText

\* C38: the entry is overwritten only by a successful refresh: when the fetches of
\* a get or of a refresh complete with every source failed (the combined text is
\* empty, or is the built-in fallback of part_000), text and updatedAt of the
\* stored entry stay as they were.
C38_OverwrittenOnlyOnSuccess ==
  [][\A f \in fetches : \A lens \in FetchOutcomes(f.urls) :
       (/\ cache.present
        /\ fetchesCompleted /\ fetches' = fetches \ {f}
        /\ cache' = setSiteCache(IF variant = "part_000"
                                  THEN fetchJeepBeachContentOrFallback(f.urls, lens)
                                  ELSE fetchJeepBeachContent(f.urls, lens), now)
        /\ \A i \in DOMAIN lens : lens[i] = 0)
       => cache' = cache]_vars

----------------------------------------------------------------------------
\* SpecScrape: fetchJeepBeachContent on its own, for the source lists a settings
\* value can hold and the texts the fetches can yield.

\* the two SiteScraper classes of the repository
Scrapers == {"siteScrape.js", "part_000"}

\* values of settings.jeepBeachUrls: not stored, empty, one source, two sources,
\* two sources with a blank line and a trailing newline, three sources
SourceLists ==
  {Undefined, "", "https://jeepbeach.com/", DefaultUrls,
   "https://jeepbeach.com/\n \nhttps://jeepbeach.com/faq/\n",
   "https://jeepbeach.com/\nhttps://jeepbeach.com/faq/\nhttps://jeepbeach.com/events/"}

\* lengths of cleaned page text: none, short, and around the safety bound (with the
\* 47 characters of the first section header 5953 reaches it, 5954 exceeds it)
ScrapeLens == {0, 40, 5953, 5954, 7000}

\* fetchJeepBeachContent(urls) of scraper `by`, the i-th fetch yielding lens[i]
scrape ==
  /\ \E by \in Scrapers, urls \in SourceLists :
       IF urls = Undefined
       THEN \* urls.split throws a TypeError
            call' = [fn |-> "fetchJeepBeachContent", by |-> by, urls |-> urls, lens |-> <<>>,
                     threw |-> TRUE, text |-> EmptyText]
       ELSE \E lens \in [1..Len(splitUrls(urls)) -> ScrapeLens] :
            call' = [fn |-> "fetchJeepBeachContent", by |-> by, urls |-> urls, lens |-> lens,
                     threw |-> FALSE,
                     text |-> IF by = "part_000" THEN fetchJeepBeachContentOrFallback(urls, lens)
                              ELSE fetchJeepBeachContent(urls, lens)]
  /\ UNCHANGED <<fetches, lastGet, storeVars, bgVars, pageVars, chanVars>>

ScrapeInit ==
  /\ PageAtRest /\ ChanAtRest /\ StoreAtRest /\ BgAtRest /\ CacheAtRest
  /\ sync = initializeSettings(EmptyStore)

ScrapeNext == scrape

SpecScrape == ScrapeInit /\ [][ScrapeNext]_vars

Scraped == call.fn = "fetchJeepBeachContent" /\ ~call.threw

\* the sources of a call whose fetch yielded text, in source-list order
RECURSIVE Successful(_, _, _)
Successful(urlArray, lens, i) ==
  IF i > Len(urlArray) THEN <<>>
  ELSE (IF lens[i] > 0 THEN <<urlArray[i]>> ELSE <<>>) \o Successful(urlArray, lens, i + 1)

\* the sources whose complete label "--- Content from <source> ---" is in a text
RECURSIVE LabelsIn(_)
LabelsIn(text) ==
  IF text = <<>> THEN <<>>
  ELSE (IF /\ Head(text).of[1] = "--- Content from "
           /\ Head(text).len >= UrlLength(Head(text).of[2]) + 21
        THEN <<Head(text).of[2]>> ELSE <<>>) \o LabelsIn(Tail(text))

\* the length of the text the loop of fetchJeepBeachContent builds, from the inputs
RECURSIVE CombinedLength(_, _, _)
CombinedLength(urlArray, lens, i) ==
  IF i > Len(urlArray) THEN 0
  ELSE (IF lens[i] > 0 THEN UrlLength(urlArray[i]) + 25 + lens[i] ELSE 0)
       + CombinedLength(urlArray, lens, i + 1)

IsPrefix(p, q) == Len(p) <= Len(q) /\ p = SubSeq(q, 1, Len(p))

PartialFailure ==
  /\ Scraped
  /\ \E i \in DOMAIN call.lens : call.lens[i] = 0
  /\ \E i \in DOMAIN call.lens : call.lens[i] > 0

\* C12 as claimed: with at least one source failing and one succeeding the result
\* holds exactly the labeled sections of the successful sources, in list order.
C12_ExactlySuccessfulSections ==
  PartialFailure => LabelsIn(call.text) = Successful(splitUrls(call.urls), call.lens, 1)

\* C12 as amended: the aggregation does not fail; its labeled sections are sections
\* of successful sources only, in list order: all of them when the combined text is
\* within the safety bound, otherwise the leading ones that the cut leaves.
C12_SuccessfulSectionsUpToCut ==
  PartialFailure =>
    LET urlArray == splitUrls(call.urls)
        ok == Successful(urlArray, call.lens, 1) IN
    /\ IsPrefix(LabelsIn(call.text), ok)
    /\ LabelsIn(call.text) # <<>>
    /\ CombinedLength(urlArray, call.lens, 1) <= maxTextLength => LabelsIn(call.text) = ok

\* C12 witness: of three sources the second failed, the result has sections one and three
C12_Witness ==
  /\ PartialFailure /\ Len(call.lens) = 3 /\ call.lens[2] = 0
  /\ LabelsIn(call.text) = <<"https://jeepbeach.com/", "https://jeepbeach.com/events/">>

AllFailed ==
  /\ Scraped /\ call.lens # <<>>
  /\ \A i \in DOMAIN call.lens : call.lens[i] = 0

\* C13: when every configured source fails, the refreshed content is the built-in
\* fallback text and not the empty string.
C13_AllFailedFallback ==
  AllFailed => call.text = getFallbackJeepBeachContent /\ TextLength(call.text) > 0

Marker == <<Chunk(<<"...">>, 3)>>
EndsWithMarker(text) == text # <<>> /\ <<text[Len(text)]>> = Marker

\* C14 as claimed: combined text over the bound comes back with length bound +
\* marker length; combined text within the bound comes back with its own length.
C14_TruncatedToBoundPlusMarker ==
  Scraped =>
    LET n == CombinedLength(splitUrls(call.urls), call.lens, 1) IN
    /\ n > maxTextLength => TextLength(call.text) = maxTextLength + 3
    /\ (0 < n /\ n <= maxTextLength) => TextLength(call.text) = n

\* C14 as amended: combined text over the bound is cut to the bound, the marker is
\* appended and the result is trimmed, which removes the two newlines before the
\* first header: the length is bound + marker length - 2. Combined text within the
\* bound is not cut and gets no marker, it loses those two newlines as well.
C14_TruncatedThenTrimmed ==
  Scraped =>
    LET n == CombinedLength(splitUrls(call.urls), call.lens, 1) IN
    /\ n > maxTextLength =>
         /\ TextLength(call.text) = maxTextLength + 3 - 2
         /\ EndsWithMarker(call.text)
    /\ (0 < n /\ n <= maxTextLength) =>
         /\ TextLength(call.text) = n - 2
         /\ ~EndsWithMarker(call.text)

\* C14 witness: a combined text of bound + 1 characters was cut
C14_Witness ==
  /\ Scraped
  /\ CombinedLength(splitUrls(call.urls), call.lens, 1) = maxTextLength + 1
  /\ EndsWithMarker(call.text) /\ TextLength(call.text) = maxTextLength + 1

----------------------------------------------------------------------------
\* SpecBg: the orchestrator handles one JB_DRAFT_REQUEST at a time, step by step;
\* each await of handleDraftRequest ends one step. The settings surface may write
\* the settings in between.

\* the forms the settings surface can save
Forms ==
  {[PageForm EXCEPT !.useGmailApi = u, !.provider = p] :
     u \in {"true", "false"}, p \in {"openai", "anthropic"}}

\* the exception of a step reaches the catch block of handleDraftRequest
thrown(step, message) == [bg EXCEPT !.pc = "catch", !.failedStep = step, !.error = message]

\* handleMessage: case 'JB_DRAFT_REQUEST'
handleMessage ==
  /\ bg.pc \in {"idle", "done", "replied"}
  /\ \E request \in Requests :
       bg' = [BgIdle EXCEPT !.pc = "getSyncData", !.type = "JB_DRAFT_REQUEST",
                            !.request = request]
  /\ tabMessages' = <<>>
  /\ netLog' = <<>>
  /\ UNCHANGED <<variant, storeVars, cacheVars, pageVars, chanVars>>

\* const settings = await this.storage.getSyncData(); new LLMProvider(settings.apiKey)
getSyncDataReturned ==
  /\ bg.pc = "getSyncData"
  /\ \E rejected \in BOOLEAN :
       IF rejected
       THEN bg' = thrown("settings read", "storage error")
       ELSE LET settings == getSyncData(sync) IN
            bg' = [bg EXCEPT !.settings = settings,
                             !.llmProvider = LLMProvider(settings["apiKey"], Undefined),
                             !.storedProvider = sync["provider"],
                             !.emailContext = bg.request.emailContext,
                             !.pc = IF lookupAttempted(settings, bg.request)
                                    THEN "fetchGmailContext" ELSE "getJeepBeachContent"]
  /\ UNCHANGED <<variant, tabMessages, netLog, storeVars, cacheVars, pageVars, chanVars>>

\* emailContext = await this.fetchGmailContext(request.threadId), inside its try/catch
fetchGmailContextReturned ==
  /\ bg.pc = "fetchGmailContext"
  /\ \E outcome \in GmailOutcomes :
       /\ bg' = [bg EXCEPT !.lookup = outcome,
                           !.emailContext = contextAfterLookup(@, outcome),
                           !.pc = "getJeepBeachContent"]
       /\ netLog' = netLog \o GmailCalls(outcome)
  /\ UNCHANGED <<variant, tabMessages, storeVars, cacheVars, pageVars, chanVars>>

\* the content resolution of the loaded script
getJeepBeachContentReturned ==
  /\ bg.pc = "getJeepBeachContent"
  /\ LET urls == bg.settings["jeepBeachUrls"]
         resolved(content) == [bg EXCEPT !.jeepBeachContent = content, !.pc = "generateDraft"]
     IN
     IF variant = "llm.js"
     THEN \* this.contentProvider.getJeepBeachContent()
          /\ bg' = resolved(getStaticJeepBeachContent)
          /\ UNCHANGED <<cache, netLog>>
     ELSE IF variant = "part_000"
     THEN \* getJeepBeachContent returns the fallback; the catch around it is never entered
          /\ bg' = resolved(getFallbackJeepBeachContent)
          /\ UNCHANGED <<cache, netLog>>
     ELSE IF ~resolvesContent(bg.request)
     THEN /\ bg' = resolved(EmptyText)
          /\ UNCHANGED <<cache, netLog>>
     ELSE IF servesFromCache(cache, now, FALSE)
     THEN /\ bg' = [resolved(cache.text) EXCEPT !.cacheReads = @ + 1]
          /\ UNCHANGED <<cache, netLog>>
     ELSE IF urls = Undefined
     THEN \* urls.split throws a TypeError
          /\ bg' = [thrown("content resolution", "Cannot read properties of undefined")
                    EXCEPT !.cacheReads = @ + 1]
          /\ UNCHANGED <<cache, netLog>>
     ELSE \E lens \in FetchOutcomes(urls) :
            LET content == fetchJeepBeachContent(urls, lens) IN
            /\ bg' = [resolved(content) EXCEPT !.cacheReads = @ + 1, !.cacheWrites = @ + 1]
            /\ cache' = setSiteCache(content, now)
            /\ netLog' = netLog \o [i \in 1..Len(splitUrls(urls)) |-> "source"]
  /\ UNCHANGED <<variant, tabMessages, sync, now, cacheVars, pageVars, chanVars>>

\* const draft = await this.llmProvider.generateDraft(...)
generateDraftReturned ==
  /\ bg.pc = "generateDraft"
  /\ IF NoApiKey(bg.settings)
     THEN /\ bg' = thrown("completion call", "API key not configured")
          /\ UNCHANGED netLog
     ELSE \E response \in LLMResponses :
            LET result == callLLM(response) IN
            /\ netLog' = Append(netLog, "chat/completions")
            /\ bg' = [(IF result.error # NoError THEN thrown("completion call", result.error)
                       ELSE [bg EXCEPT !.draft = result.draft, !.pc = "send"])
                      EXCEPT !.response = response,
                             !.completion = CompletionRequest(bg.llmProvider),
                             !.prompt = buildUserPrompt(bg.emailContext, bg.jeepBeachContent,
                                                        bg.settings["tone"],
                                                        bg.settings["fallbackMessage"])]
  /\ UNCHANGED <<variant, tabMessages, storeVars, cacheVars, pageVars, chanVars>>

\* chrome.tabs.sendMessage(sender.tab.id, ...) at the end of the try block or in the catch
sendResult ==
  /\ bg.pc \in {"send", "catch"}
  /\ tabMessages' = tabMessages \o routed(bg.draft, bg.error, bg.request.id)
  /\ bg' = [bg EXCEPT !.pc = "done"]
  /\ UNCHANGED <<variant, netLog, storeVars, cacheVars, pageVars, chanVars>>

\* the handler `type` ended with the one sendResponse call of its path
replied(type, request, message) ==
  [BgIdle EXCEPT !.pc = "replied", !.type = type, !.request = request,
                 !.replies = sendResponse(@, message)]

\* handleMessage: case 'JB_FETCH_CONTEXT', with handleFetchContext to its end
handleFetchContext ==
  /\ bg.pc \in {"idle", "done", "replied"}
  /\ \E request \in Requests :
       IF request.threadId = NoElement
       THEN /\ bg' = replied("JB_FETCH_CONTEXT", request,
                             Reply("error", <<"Thread ID required for Gmail API">>))
            /\ netLog' = <<>>
       ELSE \E outcome \in GmailOutcomes :
            /\ bg' = replied("JB_FETCH_CONTEXT", request,
                             IF returnsBody(outcome)
                             THEN Reply("context", <<contextAfterLookup("", outcome)>>)
                             ELSE Reply("error", <<outcome>>))
            /\ netLog' = GmailCalls(outcome)
  /\ tabMessages' = <<>>
  /\ UNCHANGED <<variant, storeVars, cacheVars, pageVars, chanVars>>

\* handleMessage: case 'JB_REFRESH_SITE_CACHE', with the handleRefreshSiteCache of
\* the loaded script to its end: settings read, fetches, cache write, reply
refreshSiteCacheReplied ==
  /\ bg.pc \in {"idle", "done", "replied"}
  /\ LET urls == getSyncData(sync)["jeepBeachUrls"]
         failed(message) ==
           /\ bg' = replied("JB_REFRESH_SITE_CACHE", NoRequest, Reply("error", <<message>>))
           /\ UNCHANGED cache
         stored(content, message) ==
           \E rejected \in BOOLEAN :
             IF rejected THEN failed("storage error")
             ELSE /\ bg' = replied("JB_REFRESH_SITE_CACHE", NoRequest,
                                   Reply("success message", <<message>>))
                  /\ cache' = setSiteCache(content, now)
     IN
     IF variant = "llm.js"
     THEN /\ stored(getStaticJeepBeachContent, "Content refreshed successfully")
          /\ netLog' = <<>>
     ELSE \E rejected \in BOOLEAN :
          IF rejected
          THEN failed("storage error") /\ netLog' = <<>>
          ELSE IF urls = Undefined
          THEN failed("Cannot read properties of undefined") /\ netLog' = <<>>
          ELSE \E lens \in FetchOutcomes(urls) :
               /\ stored(IF variant = "part_000" THEN fetchJeepBeachContentOrFallback(urls, lens)
                         ELSE fetchJeepBeachContent(urls, lens),
                         "Site cache refreshed successfully")
               /\ netLog' = [i \in 1..Len(splitUrls(urls)) |-> "source"]
  /\ tabMessages' = <<>>
  /\ UNCHANGED <<variant, sync, now, cacheVars, pageVars, chanVars>>

\* handleMessage: case 'JB_TEST_LLM', with handleTestLLM to its end
handleTestLLM ==
  /\ bg.pc \in {"idle", "done", "replied"}
  /\ \E rejected \in BOOLEAN :
       IF rejected
       THEN /\ bg' = replied("JB_TEST_LLM", NoRequest, Reply("error", <<"storage error">>))
            /\ netLog' = <<>>
       ELSE IF NoApiKey(getSyncData(sync))
       THEN /\ bg' = replied("JB_TEST_LLM", NoRequest, Reply("error", <<"API key not configured">>))
            /\ netLog' = <<>>
       ELSE \E response \in LLMResponses :
            /\ bg' = [replied("JB_TEST_LLM", NoRequest, testConnection(response))
                        EXCEPT !.settings = getSyncData(sync)]
            /\ netLog' = <<"chat/completions">>
  /\ tabMessages' = <<>>
  /\ UNCHANGED <<variant, storeVars, cacheVars, pageVars, chanVars>>

\* handleMessage: default, a request of a type the switch does not know
unknownMessageType ==
  /\ bg.pc \in {"idle", "done", "replied"}
  /\ bg' = replied("unknown", NoRequest, Reply("error", <<"Unknown message type">>))
  /\ tabMessages' = <<>>
  /\ netLog' = <<>>
  /\ UNCHANGED <<variant, storeVars, cacheVars, pageVars, chanVars>>

BgInit ==
  /\ PageAtRest /\ ChanAtRest /\ StoreAtRest /\ CacheAtRest
  /\ variant \in Variants /\ bg = BgIdle /\ tabMessages = <<>> /\ netLog = <<>>
  /\ sync = EmptyStore

BgNext ==
  \/ handleMessage
  \/ getSyncDataReturned
  \/ fetchGmailContextReturned
  \/ getJeepBeachContentReturned
  \/ generateDraftReturned
  \/ sendResult
  \/ handleFetchContext
  \/ refreshSiteCacheReplied
  \/ handleTestLLM
  \/ unknownMessageType
  \/ settingsInitialized
  \/ \E form \in Forms : optionsSave(form)
  \/ optionsReset

SpecBg == BgInit /\ [][BgNext]_vars

Handled == bg.pc = "done"
LookupFailed == bg.lookup # "not attempted" /\ ~returnsBody(bg.lookup)
InNetLog(issued) == \E i \in 1..Len(netLog) : netLog[i] = issued

\* C4: a handled DRAFT_REQUEST has exactly one result message pushed to the tab, and
\* none is pushed before the handler ends: a DRAFT_RESPONSE with the draft when no
\* step threw, otherwise a DRAFT_ERROR carrying the message of the error that the
\* settings read, the content resolution or the completion call threw. A failed rich
\* lookup is not such an error, it ends with the one push as well.
C4_ExactlyOnePush ==
  /\ ~Handled => tabMessages = <<>>
  /\ Handled =>
       /\ Len(tabMessages) = 1
       /\ tabMessages[1].re = bg.request.id
       /\ bg.failedStep = "none" =>
            /\ tabMessages[1].type = "JB_DRAFT_RESPONSE"
            /\ tabMessages[1].draft = bg.draft /\ bg.draft # ""
       /\ bg.failedStep # "none" =>
            /\ tabMessages[1].type = "JB_DRAFT_ERROR"
            /\ tabMessages[1].error = bg.error /\ bg.error # NoError

\* C4 witness: a request whose completion call failed has been handled
C4_Witness ==
  /\ Handled /\ bg.failedStep = "completion call"
  /\ InNetLog("chat/completions")
  /\ tabMessages = <<DraftError("Empty response from LLM", bg.request.id)>>

\* C8: the lookup is attempted only with the mode on and a thread id present (and
\* then it is); when it fails the request goes on with the page-supplied
\* emailContext, the completion client is invoked unless a later step fails, and
\* the error pushed, if any, is the error of that later step.
C8_LookupFailureSwallowed ==
  /\ bg.lookup # "not attempted" =>
       bg.settings.useGmailApi = "true" /\ bg.request.threadId # NoElement
  /\ (bg.lookup = "not attempted" /\ bg.pc \in {"getJeepBeachContent", "generateDraft", "send"}) =>
       ~(bg.settings.useGmailApi = "true" /\ bg.request.threadId # NoElement)
  /\ (bg.type = "JB_DRAFT_REQUEST" /\ bg.lookup = "not attempted") =>
       ~InNetLog("gmail threads.get") /\ ~InNetLog("gmail messages.get")
  /\ LookupFailed =>
       /\ bg.emailContext = bg.request.emailContext
       /\ bg.error \notin GmailOutcomes
       /\ bg.failedStep \in {"none", "content resolution", "completion call"}
       /\ (Handled /\ bg.failedStep = "none") =>
            /\ InNetLog("chat/completions")
            /\ tabMessages = <<DraftResponse(bg.draft, bg.request.id)>>
       /\ (Handled /\ bg.failedStep = "completion call" /\ ~NoApiKey(bg.settings)) =>
            InNetLog("chat/completions")

\* C8 witness: the token could not be obtained, and the draft was generated from
\* the page-supplied context and pushed
C8_Witness ==
  /\ Handled /\ bg.lookup = "No token received"
  /\ bg.emailContext = "DOM context"
  /\ InNetLog("chat/completions")
  /\ tabMessages = <<DraftResponse("Draft text", bg.request.id)>>

Answered(responses) == bg.response \in responses /\ bg.pc \in {"catch", "done"}

\* C15: a completion response without choices makes generateDraft fail with
\* 'Invalid LLM response', an error other than the one raised for a non-success
\* HTTP status or a failed fetch; a first choice that is empty or only whitespace
\* makes it fail with 'Empty response from LLM'; no draft is returned in either
\* case and the orchestrator pushes that error as the one DRAFT_ERROR.
C15_InvalidAndEmptyResponses ==
  /\ Answered({"no choices", "empty choices"}) =>
       /\ bg.error = "Invalid LLM response" /\ bg.draft = ""
       /\ bg.error \notin {callLLM("status 401").error, callLLM("Failed to fetch").error}
       /\ Handled => tabMessages = <<DraftError("Invalid LLM response", bg.request.id)>>
  /\ Answered({"", "  "}) =>
       /\ bg.error = "Empty response from LLM" /\ bg.draft = ""
       /\ Handled => tabMessages = <<DraftError("Empty response from LLM", bg.request.id)>>

\* C15 witness: an empty choices list was answered and the error has been pushed
C15_Witness ==
  /\ Handled /\ bg.response = "empty choices"
  /\ tabMessages = <<DraftError("Invalid LLM response", bg.request.id)>>

\* C17: the completion request of a draft request goes to the chat-completion
\* endpoint of the provider stored in the settings, with that provider's envelope
\* (openai when none is stored).
C17_ConfiguredProviderUsed ==
  bg.response # "not called" =>
    bg.completion = CompletionRequest(LLMProvider(bg.settings["apiKey"], bg.storedProvider))

\* C18: an orchestrator that handles a draft request with no credential stored
\* reports the missing credential without having issued any network call: no
\* reference-source fetch, no rich-context lookup, no completion call.
C18_NoCredentialNoNetwork ==
  (Handled /\ NoApiKey(bg.settings)) => netLog = <<>>

Replied == bg.pc = "replied"

\* C19: every request produces exactly one response event. A handled FETCH_CONTEXT,
\* REFRESH_SITE_CACHE or TEST_COMPLETION request has had the reply callback called
\* exactly once, with its success shape or with { error }, and nothing pushed to the
\* tab; FETCH_CONTEXT without a thread id and a request of an unknown type are
\* answered with { error }. A handled DRAFT_REQUEST has exactly one pushed
\* DRAFT_RESPONSE or DRAFT_ERROR and no reply; nothing is sent before a handler ends.
C19_ExactlyOneResponse ==
  /\ ~(Handled \/ Replied) => bg.replies = <<>> /\ tabMessages = <<>>
  /\ Handled =>
       /\ bg.type = "JB_DRAFT_REQUEST" /\ bg.replies = <<>>
       /\ Len(tabMessages) = 1
       /\ tabMessages[1].type \in {"JB_DRAFT_RESPONSE", "JB_DRAFT_ERROR"}
  /\ Replied =>
       /\ Len(bg.replies) = 1 /\ tabMessages = <<>>
       /\ bg.type \in {"JB_FETCH_CONTEXT", "JB_REFRESH_SITE_CACHE", "JB_TEST_LLM", "unknown"}
       /\ bg.type = "JB_FETCH_CONTEXT" =>
            /\ bg.replies[1].shape \in {"context", "error"}
            /\ bg.request.threadId = NoElement =>
                 bg.replies[1] = Reply("error", <<"Thread ID required for Gmail API">>)
       /\ bg.type = "JB_REFRESH_SITE_CACHE" =>
            bg.replies[1].shape \in {"success message", "error"}
       /\ bg.type = "JB_TEST_LLM" =>
            bg.replies[1].shape \in {"success response", "error"}
       /\ bg.type = "unknown" =>
            bg.replies[1] = Reply("error", <<"Unknown message type">>)

\* C19 witness: a FETCH_CONTEXT request without a thread id has been answered
C19_Witness ==
  /\ Replied /\ bg.type = "JB_FETCH_CONTEXT" /\ bg.request.threadId = NoElement
  /\ bg.replies = <<Reply("error", <<"Thread ID required for Gmail API">>)>>

\* options.js loadSettings: the form fields as populated from getSyncData()
loadSettings(store) ==
  LET settings == getSyncData(store)
      orElse(k, default) ==
        IF k \in DOMAIN settings /\ settings[k] \notin {Undefined, ""} THEN settings[k]
        ELSE default
  IN [apiKey |-> orElse("apiKey", ""), provider |-> orElse("provider", "openai"),
      tone |-> orElse("tone", ""), fallbackMessage |-> orElse("fallbackMessage", ""),
      useGmailApi |-> IF orElse("useGmailApi", "false") = "true" THEN "true" ELSE "false"]

\* C22: the values saved through the settings surface are the values the next
\* settings read returns: after a save, loadSettings populates the form with what
\* was saved, the provider included.
C22_SavedSettingsReadBack ==
  [][\A form \in Forms : optionsSave(form) => loadSettings(sync') = form]_vars

\* C32: in rewrite mode handleDraftRequest of part_001 skips the content
\* resolution: the request reads no cache entry, writes none and fetches no source,
\* and generateDraft is given the empty text; any other request that got past its
\* settings read goes through getJeepBeachContent, and so reads the cache, once.
C32_RewriteSkipsContent ==
  (Handled /\ variant = "part_001" /\ bg.type = "JB_DRAFT_REQUEST"
     /\ bg.failedStep # "settings read") =>
    IF bg.request.isRewriteMode
    THEN /\ bg.cacheReads = 0 /\ bg.cacheWrites = 0 /\ ~InNetLog("source")
         /\ bg.jeepBeachContent = EmptyText
         /\ bg.response # "not called" =>
              bg.prompt = buildUserPrompt(bg.emailContext, EmptyText, bg.settings["tone"],
                                          bg.settings["fallbackMessage"])
    ELSE bg.cacheReads = 1 /\ bg.cacheWrites <= 1

\* C32 witness: a rewrite request was answered by the completion endpoint while a
\* fresh cache entry was stored
C32_Witness ==
  /\ Handled /\ variant = "part_001" /\ bg.type = "JB_DRAFT_REQUEST"
  /\ bg.request.isRewriteMode /\ bg.response # "not called" /\ bg.draft # ""
  /\ servesFromCache(cache, now, FALSE)

\* C36: when the lookup reaches a message without obtaining a body from it, the
\* request goes on with the page-supplied emailContext: no placeholder of
\* extractMessageBody is the email context of a prompt.
C36_NoPlaceholderContext ==
  (bg.type = "JB_DRAFT_REQUEST" /\ bg.lookup \in Placeholders) =>
    /\ bg.emailContext = bg.request.emailContext
    /\ bg.response # "not called" => bg.prompt[2] \notin Placeholders

----------------------------------------------------------------------------
\* SpecRoundTrip: one page agent and the orchestrator, joined by the channel: the
\* requests the agent dispatches are the ones handled, and the results pushed are
\* delivered to the tab. The settings have been saved and stay as they are.

\* the listener of setupMessageListener runs handleMessage on a request from the tab
receiveDraftRequest ==
  /\ bg.pc \in {"idle", "done"}
  /\ \E m \in outbox :
       /\ outbox' = outbox \ {m}
       /\ bg' = [BgIdle EXCEPT !.pc = "getSyncData", !.type = "JB_DRAFT_REQUEST",
                               !.request = [Request(m.id, m.threadId, FALSE)
                                              EXCEPT !.emailContext = m.emailContext,
                                                     !.payload = [k \in DOMAIN NoPayload |-> m[k]]]]
  /\ tabMessages' = <<>>
  /\ netLog' = <<>>
  /\ UNCHANGED <<inbox, sentBy, variant, storeVars, cacheVars, pageVars>>

\* chrome.tabs.sendMessage(sender.tab.id, ...): the message reaches the tab's listeners
sendResultToTab ==
  /\ bg.pc \in {"send", "catch"}
  /\ tabMessages' = tabMessages \o routed(bg.draft, bg.error, bg.request.id)
  /\ inbox' = inbox \o routed(bg.draft, bg.error, bg.request.id)
  /\ bg' = [bg EXCEPT !.pc = "done"]
  /\ UNCHANGED <<outbox, sentBy, variant, netLog, storeVars, cacheVars, pageVars>>

RoundTripInit ==
  /\ agents = <<newAgent>> /\ jeepBeachScript = 1 /\ domButton = 1 /\ pendingInit = 0
  /\ location \in Locations /\ dom = DomAtRest
  /\ composeBox = NoElement /\ inboundMessage = FALSE /\ toast = NoToast
  /\ ChanAtRest /\ StoreAtRest /\ CacheAtRest
  /\ variant \in Variants /\ bg = BgIdle /\ tabMessages = <<>> /\ netLog = <<>>
  /\ \E form \in Forms : sync = saveSettings(initializeSettings(EmptyStore), form)

RoundTripNext ==
  \/ \E a \in Agents : handleDraftRequest(a)
  \/ \E a \in Agents : getSettingsResolved(a)
  \/ receiveDraftRequest
  \/ getSyncDataReturned
  \/ fetchGmailContextReturned
  \/ getJeepBeachContentReturned
  \/ generateDraftReturned
  \/ sendResultToTab
  \/ deliverToTab
  \/ domChange

SpecRoundTrip == RoundTripInit /\ [][RoundTripNext]_vars

InsertedToast == Toast(<<"Draft inserted successfully!">>, "success")

----------------------------------------------------------------------------
\* SpecDecode: decodeBase64Url applied to the base64url data of message bodies.
\* Characters are code points, octets are 0..255, and a base64 character is its
\* index in the alphabet: 0..63, with 64 for '-', 65 for '_' and 66 for '='.

MaxPlaintext == 3   \* code points in a message body

\* '+', 'O', e-acute, the euro sign, an emoji outside the BMP
CodePoints == {43, 79, 233, 8364, 128512}

RECURSIVE SeqsUpTo(_, _)
SeqsUpTo(S, n) ==
  IF n = 0 THEN {<<>>}
  ELSE SeqsUpTo(S, n - 1) \cup {Append(t, c) : t \in SeqsUpTo(S, n - 1), c \in S}

Plaintexts == SeqsUpTo(CodePoints, MaxPlaintext)

\* the UTF-8 octets of a code point
utf8(cp) ==
  IF cp < 128 THEN <<cp>>
  ELSE IF cp < 2048 THEN <<192 + (cp \div 64), 128 + (cp % 64)>>
  ELSE IF cp < 65536 THEN <<224 + (cp \div 4096), 128 + ((cp \div 64) % 64), 128 + (cp % 64)>>
  ELSE <<240 + (cp \div 262144), 128 + ((cp \div 4096) % 64), 128 + ((cp \div 64) % 64),
         128 + (cp % 64)>>

RECURSIVE encodeUtf8(_)
encodeUtf8(text) == IF text = <<>> THEN <<>> ELSE utf8(Head(text)) \o encodeUtf8(Tail(text))

\* the sextets of an octet string, the last group left unpadded
RECURSIVE sextets(_)
sextets(octets) ==
  IF Len(octets) = 0 THEN <<>>
  ELSE IF Len(octets) = 1
  THEN <<(octets[1] \div 4), (octets[1] % 4) * 16>>
  ELSE IF Len(octets) = 2
  THEN <<(octets[1] \div 4), (octets[1] % 4) * 16 + (octets[2] \div 16), (octets[2] % 16) * 4>>
  ELSE <<(octets[1] \div 4), (octets[1] % 4) * 16 + (octets[2] \div 16),
         (octets[2] % 16) * 4 + (octets[3] \div 64), (octets[3] % 64)>>
       \o sextets(SubSeq(octets, 4, Len(octets)))

\* body.data as the Gmail API delivers it: UTF-8, URL-safe alphabet, no padding
encodeBase64Url(text) ==
  LET s == sextets(encodeUtf8(text)) IN
  [i \in 1..Len(s) |-> IF s[i] = 62 THEN 64 ELSE IF s[i] = 63 THEN 65 ELSE s[i]]

\* str.replace(/-/g, '+').replace(/_/g, '/')
toBase64_kept(str) == str
toBase64(str) ==
  [i \in 1..Len(str) |-> IF str[i] = 64 THEN 62 ELSE IF str[i] = 65 THEN 63 ELSE str[i]]

\* while (str.length % 4) str += '='
RECURSIVE addPadding(_)
addPadding(str) == IF Len(str) % 4 # 0 THEN addPadding(Append(str, 66)) ELSE str

\* the octets of a string of sextets without padding
RECURSIVE octetsOf(_)
octetsOf(s) ==
  IF Len(s) < 2 THEN <<>>
  ELSE IF Len(s) = 2 THEN <<s[1] * 4 + (s[2] \div 16)>>
  ELSE IF Len(s) = 3 THEN <<s[1] * 4 + (s[2] \div 16), (s[2] % 16) * 16 + (s[3] \div 4)>>
  ELSE <<s[1] * 4 + (s[2] \div 16), (s[2] % 16) * 16 + (s[3] \div 4), (s[3] % 4) * 64 + s[4]>>
       \o octetsOf(SubSeq(s, 5, Len(s)))

\* atob: one or two '=' at the end of a string of 4n characters are dropped; a
\* character outside the alphabet or a length of 4n + 1 throws InvalidCharacterError
Thrown == <<-1>>
atob(str) ==
  LET n == Len(str)
      drop == IF (n % 4) = 0 /\ n > 0 /\ str[n] = 66
              THEN (IF str[n - 1] = 66 THEN 2 ELSE 1) ELSE 0
      data == SubSeq(str, 1, n - drop)
  IN IF (\E i \in 1..Len(data) : data[i] > 63) \/ Len(data) % 4 = 1 THEN Thrown
     ELSE octetsOf(data)

\* escape: letters, digits and @ * _ + - . / stay, any other octet becomes %XX
Unescaped == (48..57) \cup (65..90) \cup (97..122) \cup {64, 42, 95, 43, 45, 46, 47}
escape(binary) == [i \in 1..Len(binary) |-> [pct |-> binary[i] \notin Unescaped, code |-> binary[i]]]

\* the number of octets of the UTF-8 sequence a lead octet starts (0: not a lead)
sequenceLength(octet) ==
  IF octet < 128 THEN 1
  ELSE IF octet >= 194 /\ octet < 224 THEN 2
  ELSE IF octet >= 224 /\ octet < 240 THEN 3
  ELSE IF octet >= 240 /\ octet < 245 THEN 4
  ELSE 0

\* decodeURIComponent: runs of %XX are decoded as UTF-8, other characters stay; a
\* run that is not well-formed UTF-8 throws URIError
RECURSIVE decodeURIComponent(_)
decodeURIComponent(tokens) ==
  IF tokens = <<>> THEN <<>>
  ELSE IF ~Head(tokens).pct
  THEN LET rest == decodeURIComponent(Tail(tokens)) IN
       IF rest = Thrown THEN Thrown ELSE <<Head(tokens).code>> \o rest
  ELSE LET n == sequenceLength(Head(tokens).code)
           cont(i) == tokens[i].pct /\ tokens[i].code >= 128 /\ tokens[i].code < 192
       IN
       IF n = 0 \/ Len(tokens) < n \/ \E i \in 2..n : ~cont(i) THEN Thrown
       ELSE LET b(i) == (tokens[i].code % 64)
                cp == IF n = 1 THEN tokens[1].code
                      ELSE IF n = 2 THEN (tokens[1].code % 32) * 64 + b(2)
                      ELSE IF n = 3 THEN (tokens[1].code % 16) * 4096 + b(2) * 64 + b(3)
                      ELSE (tokens[1].code % 8) * 262144 + b(2) * 4096 + b(3) * 64 + b(4)
                wellFormed == /\ n = 3 => cp >= 2048 /\ (cp < 55296 \/ cp > 57343)
                              /\ n = 4 => cp >= 65536 /\ cp <= 1114111
                rest == decodeURIComponent(SubSeq(tokens, n + 1, Len(tokens)))
            IN IF ~wellFormed \/ rest = Thrown THEN Thrown ELSE <<cp>> \o rest

\* decodeBase64Url(str)
decodeBase64Url(str) ==
  LET padded == addPadding(toBase64(str))
      binary == atob(padded)
      text == IF binary = Thrown THEN Thrown ELSE decodeURIComponent(escape(binary))
  IN IF text = Thrown THEN padded ELSE text

\* a message body is encoded by the API and decoded by the extractor
decode ==
  /\ \E plaintext \in Plaintexts :
       call' = [fn |-> "decodeBase64Url", plaintext |-> plaintext,
                data |-> encodeBase64Url(plaintext),
                text |-> decodeBase64Url(encodeBase64Url(plaintext))]
  /\ UNCHANGED <<fetches, lastGet, storeVars, bgVars, pageVars, chanVars>>

DecodeInit ==
  /\ PageAtRest /\ ChanAtRest /\ StoreAtRest /\ BgAtRest /\ CacheAtRest
  /\ sync = initializeSettings(EmptyStore)

DecodeNext == decode

SpecDecode == DecodeInit /\ [][DecodeNext]_vars

Decoded == call.fn = "decodeBase64Url"

\* C21: a plaintext encoded as UTF-8 base64url, padding stripped, and decoded with
\* decodeBase64Url comes back as the same text, non-ASCII characters included.
C21_Base64UrlRoundTrip == Decoded => call.text = call.plaintext

\* C21 witness: a text with a character outside the BMP whose encoding uses both
\* URL-safe characters and needs padding has been decoded to itself
C21_Witness ==
  /\ Decoded /\ call.text = call.plaintext
  /\ \E i \in 1..Len(call.plaintext) : call.plaintext[i] > 65535
  /\ \E i \in 1..Len(call.data) : call.data[i] = 64
  /\ \E i \in 1..Len(call.data) : call.data[i] = 65
  /\ Len(call.data) % 4 # 0

----------------------------------------------------------------------------
\* SpecDeadline: the round trip of SpecRoundTrip with its scheduling. Once the
\* completion call has returned, the push at the end of handleDraftRequest runs and
\* the event loop of the tab delivers the message; nothing makes the completion
\* call itself return.

SpecDeadline ==
  /\ RoundTripInit /\ [][RoundTripNext]_vars
  /\ WF_vars(sendResultToTab) /\ WF_vars(deliverToTab)

\* the completion call of the dispatched request has neither resolved nor rejected
CallPending == bg.pc = "generateDraft"
CallReturned == bg.pc \in {"send", "catch"}

\* C23: no deadline is enforced. While the completion call of a dispatched request
\* is pending and the agent is not torn down, no result message has been pushed or
\* delivered, the agent is processing with its control disabled, every further
\* handleDraftRequest is rejected, and only the return of the call ends this.
\* Once the call has resolved or rejected, the control is eventually re-enabled.
C23_NoDeadline ==
  /\ [](CallPending =>
          /\ tabMessages = <<>> /\ inbox = <<>>
          /\ agents[sentBy[bg.request.id]].isProcessing
          /\ agents[sentBy[bg.request.id]].disabled)
  /\ [][/\ \A a \in Agents : (CallPending /\ handleDraftRequest(a)) =>
              agents' = agents /\ toast' = AlreadyProcessingToast
        /\ (CallPending /\ ~CallPending') => generateDraftReturned]_vars
  /\ (CallReturned ~> \A a \in Agents : Idle(agents[a]))

\* C23 witness: with the completion call pending a further click has been rejected
C23_Witness ==
  /\ CallPending /\ toast = AlreadyProcessingToast
  /\ agents[sentBy[bg.request.id]].isProcessing /\ agents[sentBy[bg.request.id]].disabled

----------------------------------------------------------------------------
\* SpecGmail: the two pure steps of fetchGmailContext, applied to the threads and
\* the message payloads the Gmail API can return.

MaxThread == 3   \* messages in a thread
MaxParts == 3    \* parts in a message payload

\* message.labelIds: absent, or a list of label ids
NoLabelIds == [present |-> FALSE, ids |-> {}]
LabelIds(ids) == [present |-> TRUE, ids |-> ids]
LabelLists ==
  {NoLabelIds, LabelIds({}), LabelIds({"INBOX"}), LabelIds({"SENT"}), LabelIds({"SENT", "INBOX"})}

\* thread.messages || [], oldest first
Threads == SeqsUpTo(LabelLists, MaxThread)

\* message.labelIds && !message.labelIds.includes('SENT')
isInbound(labelIds) == labelIds.present /\ "SENT" \notin labelIds.ids

\* for (let i = messages.length - 1; i >= 0; i--) ...: the position found, 0 for null
RECURSIVE findInbound(_, _)
findInbound(messages, i) ==
  IF i = 0 THEN 0
  ELSE IF isInbound(messages[i]) THEN i
  ELSE findInbound(messages, i - 1)

\* fetchGmailContext from the thread to the message it asks for
selectInboundMessage ==
  /\ \E messages \in Threads :
       call' = [fn |-> "fetchGmailContext", messages |-> messages,
                error |-> IF messages = <<>> THEN "No messages found in thread"
                          ELSE IF findInbound(messages, Len(messages)) = 0
                          THEN "No inbound messages found"
                          ELSE NoError,
                inboundMessage |-> findInbound(messages, Len(messages))]
  /\ UNCHANGED <<fetches, lastGet, storeVars, bgVars, pageVars, chanVars>>

\* a payload part: its mimeType and whether part.body?.data is a non-empty string
Part(mimeType, data) == [mimeType |-> mimeType, data |-> data]
Parts == {Part(t, d) : t \in {"text/plain", "text/html", "image/png"}, d \in BOOLEAN}

\* messageData.payload: parts (absent reads as []) and whether payload.body.data is there
Payloads == {[parts |-> parts, body |-> body] : parts \in SeqsUpTo(Parts, MaxParts),
                                                 body \in BOOLEAN}

\* what extractMessageBody returns: the decoded data of part `part` (0: the direct
\* body), passed through stripHtml or not, or the fixed text when nothing is found
Body(part, stripped) == [part |-> part, stripped |-> stripped, text |-> "decoded data"]
NoBody == [part |-> 0, stripped |-> FALSE, text |-> "No message body found"]

\* for (const part of parts): the first text/plain or text/html part with data
RECURSIVE firstTextPart(_, _)
firstTextPart(parts, i) ==
  IF i > Len(parts) THEN 0
  ELSE IF parts[i].mimeType \in {"text/plain", "text/html"} /\ parts[i].data THEN i
  ELSE firstTextPart(parts, i + 1)

\* the first text/plain part with data, the first text/html part with data otherwise
RECURSIVE firstOfType(_, _, _)
firstOfType(parts, mimeType, i) ==
  IF i > Len(parts) THEN 0
  ELSE IF parts[i].mimeType = mimeType /\ parts[i].data THEN i
  ELSE firstOfType(parts, mimeType, i + 1)

extractMessageBody(payload) ==
  LET i == firstTextPart(payload.parts, 1) IN
  IF i # 0 THEN Body(i, payload.parts[i].mimeType = "text/html")
  ELSE IF payload.body THEN Body(0, TRUE)
  ELSE NoBody

\* const body = this.extractMessageBody(messageData)
messageBodyExtracted ==
  /\ \E payload \in Payloads :
       call' = [fn |-> "extractMessageBody", payload |-> payload,
                body |-> extractMessageBody(payload)]
  /\ UNCHANGED <<fetches, lastGet, storeVars, bgVars, pageVars, chanVars>>

GmailInit ==
  /\ PageAtRest /\ ChanAtRest /\ StoreAtRest /\ BgAtRest /\ CacheAtRest
  /\ sync = initializeSettings(EmptyStore)

GmailNext == selectInboundMessage \/ messageBodyExtracted

SpecGmail == GmailInit /\ [][GmailNext]_vars

Selected == call.fn = "fetchGmailContext"
Extracted == call.fn = "extractMessageBody"

\* the positions of the messages of a thread that do not carry the SENT label
NotSent(messages) == {i \in 1..Len(messages) : "SENT" \notin messages[i].ids}
Highest(S) == CHOOSE i \in S : \A j \in S : j <= i

\* C24: the lookup selects the most recent message that does not carry the SENT
\* label, messages without a label list included, and fails only when the thread
\* is empty or every message carries SENT.
C24_MostRecentNotSent ==
  Selected =>
    /\ NotSent(call.messages) # {} =>
         call.error = NoError /\ call.inboundMessage = Highest(NotSent(call.messages))
    /\ NotSent(call.messages) = {} => call.error # NoError

\* C25: a text/plain part with data is used, unstripped, whenever the payload has
\* one, wherever it stands among the parts; a text/html part with data is used,
\* stripped, only when there is no text/plain part with data.
C25_PlainPreferred ==
  Extracted =>
    LET parts == call.payload.parts
        plain == firstOfType(parts, "text/plain", 1)
        html == firstOfType(parts, "text/html", 1) IN
    /\ plain # 0 => call.body = Body(plain, FALSE)
    /\ (plain = 0 /\ html # 0) => call.body = Body(html, TRUE)

----------------------------------------------------------------------------
\* SpecDom: one tab in time. The host page mutates its DOM and moves between
\* views; the observers of content.js schedule their timers, the timers fire,
\* and time passes in between, never past a pending timer.

MaxNavigations == 2   \* location changes still to be acted on, and agents they construct

DebounceDelay == 100  \* setTimeout(() => this.checkComposeBox(), 100)
SettleDelay == 1000   \* setTimeout(initializeScript, 1000)
TimeSteps == {50}     \* time passes in steps of this many ms, or up to the next timer
Quiet == 150          \* sinceMutation stops counting here: the page has gone quiet


ShowDelay == 10       \* setTimeout(() => toast.classList.add(...), 10)
ToastDuration == 3000 \* showToast(message, type = 'info', duration = 3000)
ExitTransition == 300 \* setTimeout(() => { ... removeChild(toast) }, 300)
Expired == 3400       \* the age of a toast stops counting here

\* element.remove() of an agent's own control
removeChild(buttons, a) == SelectSeq(buttons, LAMBDA b : b # a)
\* document.getElementById('jeepbeach-draft-button'): the first such element, removed
removeById(buttons) == IF buttons = <<>> THEN <<>> ELSE Tail(buttons)
\* document.body.appendChild(this.floatingButton)
appendChild_dropped(buttons, a) == buttons
appendChild(buttons, a) == Append(buttons, a)

\* toggleButtonVisibility(button, composeBox !== null)
displayFor(box) == IF box # NoElement THEN "block" ELSE "none"

\* the callback of the navigation observer: if (url !== lastUrl) { lastUrl = url; setTimeout(...) }
navigationTick(d) ==
  IF location # d.lastUrl
  THEN [d EXCEPT !.lastUrl = location, !.initTimers = Append(@, SettleDelay)]
  ELSE d

\* the callback of an agent's observer: clearTimeout(this.checkTimeout); setTimeout(..., 100)
observerTick(d) ==
  [d EXCEPT !.checkTimeout = [a \in DOMAIN @ |-> IF d.observer[a] THEN DebounceDelay ELSE @[a]]]

\* nodes were added to or removed from the document: both observers are called
mutated(d) == [observerTick(navigationTick(d)) EXCEPT !.sinceMutation = 0, !.checks = 0]

\* JeepBeachContentScript.destroy of agent a: observer.disconnect(),
\* floatingButton.remove(), clearTimeout(this.checkTimeout)
destroyed_timerKept(d, a) ==
  [d EXCEPT !.observer[a] = FALSE, !.buttons = removeChild(@, a)]
destroyed(d, a) ==
  [d EXCEPT !.observer[a] = FALSE, !.buttons = removeChild(@, a), !.checkTimeout[a] = NoTimer]

\* the ms left of every pending timer
Deadlines ==
  ({dom.checkTimeout[a] : a \in DOMAIN dom.checkTimeout} \cup
   {dom.initTimers[i] : i \in DOMAIN dom.initTimers} \cup
   UNION {{dom.toasts[i].showIn, dom.toasts[i].hideIn, dom.toasts[i].removeIn} :
            i \in DOMAIN dom.toasts}) \ {NoTimer}

\* the host page adds or removes nodes (observed with childList and subtree); the
\* compose surface may appear or go with it
childListMutation ==
  /\ \E box \in ComposeTexts : composeBox' = box
  /\ dom' = mutated(dom)
  /\ pendingInit' = Len(dom'.initTimers)
  /\ UNCHANGED <<agents, jeepBeachScript, domButton, location, inboundMessage, toast>>
  /\ UNCHANGED <<chanVars, storeVars, bgVars, cacheVars>>

\* the host page changes a style or a class: the compose surface becomes visible or
\* hidden (isVisible reads the computed style); both observers have attributes off
attributeMutation ==
  /\ \E box \in ComposeTexts \ {composeBox} : composeBox' = box
  /\ dom' = [dom EXCEPT !.sinceMutation = 0, !.checks = 0]
  /\ UNCHANGED <<agents, jeepBeachScript, domButton, pendingInit, location, inboundMessage, toast>>
  /\ UNCHANGED <<chanVars, storeVars, bgVars, cacheVars>>

\* the host page moves to another view without a reload (history.pushState)
pushState ==
  /\ Len(agents) - 1 + Len(dom.initTimers) + (IF location # dom.lastUrl THEN 1 ELSE 0)
       < MaxNavigations
  /\ \E url \in Locations \ {location} : location' = url
  /\ UNCHANGED <<agents, jeepBeachScript, domButton, pendingInit, composeBox, inboundMessage,
                 toast, dom>>
  /\ UNCHANGED <<chanVars, storeVars, bgVars, cacheVars>>

\* the debounce timer of agent a fires: checkComposeBox()
checkComposeBox(a) ==
  /\ a \in DOMAIN dom.checkTimeout
  /\ dom.checkTimeout[a] = 0
  /\ dom' = [dom EXCEPT !.checkTimeout[a] = NoTimer, !.display[a] = displayFor(composeBox),
                        !.checks = @ + 1]
  /\ UNCHANGED <<agents, jeepBeachScript, domButton, pendingInit, location, composeBox,
                 inboundMessage, toast>>
  /\ UNCHANGED <<chanVars, storeVars, bgVars, cacheVars>>

\* the oldest settle timer fires: initializeScript() destroys the current agent and
\* constructs the next one, whose setup() creates the control hidden, connects the
\* observer and checks at once; the navigation observer sees the control replaced
settleTimerFired ==
  /\ dom.initTimers # <<>> /\ Head(dom.initTimers) = 0
  /\ LET old == jeepBeachScript
         new == Len(agents) + 1
         constructed == [destroyed(dom, old) EXCEPT !.buttons = appendChild(removeById(@), new),
                                          !.observer = Append(@, TRUE),
                                          !.checkTimeout = Append(@, NoTimer),
                                          !.display = Append(@, displayFor(composeBox)),
                                          !.initTimers = Tail(@),
                                          !.sinceMutation = NoTimer, !.checks = 0]
     IN /\ dom' = navigationTick(constructed)
        /\ agents' = Append(agents, newAgent)
        /\ jeepBeachScript' = new
        /\ domButton' = IF dom'.buttons = <<>> THEN 0 ELSE dom'.buttons[Len(dom'.buttons)]
        /\ pendingInit' = Len(dom'.initTimers)
  /\ UNCHANGED <<location, composeBox, inboundMessage, toast>>
  /\ UNCHANGED <<chanVars, storeVars, bgVars, cacheVars>>

\* a timer d ms later
later(timer, d) == IF timer = NoTimer THEN NoTimer ELSE timer - d

\* d ms pass: one of the steps, or the time to the next timer, and no timer is passed over
elapseBy(steps) ==
  /\ \E d \in steps \cup (Deadlines \ {0}) :
       /\ \A t \in Deadlines : d <= t
       /\ dom' = [dom EXCEPT
            !.checkTimeout = [a \in DOMAIN @ |-> later(@[a], d)],
            !.initTimers = [i \in DOMAIN @ |-> @[i] - d],
            !.toasts = [i \in DOMAIN @ |->
                          [@[i] EXCEPT !.showIn = later(@, d), !.hideIn = later(@, d),
                                       !.removeIn = later(@, d),
                                       !.age = IF @ + d > Expired THEN Expired ELSE @ + d]],
            !.sinceMutation = IF @ = NoTimer THEN NoTimer
                              ELSE IF @ + d > Quiet THEN Quiet ELSE @ + d]
  /\ UNCHANGED <<agents, jeepBeachScript, domButton, pendingInit, location, composeBox,
                 inboundMessage, toast>>
  /\ UNCHANGED <<chanVars, storeVars, bgVars, cacheVars>>

elapse == elapseBy(TimeSteps)

DomInit ==
  /\ PageAtRest /\ ChanAtRest /\ StoreAtRest /\ BgAtRest /\ CacheAtRest
  /\ sync = initializeSettings(EmptyStore)

DomNext ==
  \/ childListMutation
  \/ attributeMutation
  \/ pushState
  \/ \E a \in Agents : checkComposeBox(a)
  \/ settleTimerFired
  \/ elapse

\* a timer that is due fires, and time goes on
SpecDom ==
  /\ DomInit /\ [][DomNext]_vars
  /\ WF_vars(\E a \in Agents : checkComposeBox(a)) /\ WF_vars(settleTimerFired) /\ WF_vars(elapse)

\* the control of the current agent is shown
Visible == dom.display[jeepBeachScript] = "block"
Present == composeBox # NoElement

\* C27: the re-evaluation is debounced. A check runs only when 100 ms have passed
\* since the last DOM mutation and no check has run since; 100 ms after the last
\* mutation of a burst that one check has run; after a check the control is
\* visible iff a compose surface was present at the check; and when the mutations
\* stop, the control's visibility eventually matches the presence of a surface.
C27_DebouncedCheck ==
  /\ [][\A a \in Agents : checkComposeBox(a) =>
          /\ dom.sinceMutation = DebounceDelay /\ dom.checks = 0
          /\ dom'.display[a] = displayFor(composeBox)]_vars
  /\ [](dom.sinceMutation > DebounceDelay => dom.checks = 1)
  /\ (<>[](dom.sinceMutation = Quiet) => <>[](Visible <=> Present))

\* C28: when a settle timer fires the whole agent is replaced. The old agent's
\* observer is disconnected, its control is out of the document and its debounce
\* timer is cancelled; the new agent is the current one, idle, with its control
\* created hidden and set by the check that setup() runs. Every agent but the
\* current one stays torn down, and only the current agent ever runs a check.
C28_TornDownAndReplaced ==
  /\ [][/\ settleTimerFired =>
             LET old == jeepBeachScript
                 new == Len(agents) + 1 IN
             /\ Head(dom.initTimers) = 0
             /\ ~dom'.observer[old] /\ dom'.checkTimeout[old] = NoTimer
             /\ \A i \in DOMAIN dom'.buttons : dom'.buttons[i] # old
             /\ jeepBeachScript' = new /\ agents'[new] = newAgent
             /\ ~agents'[new].isProcessing /\ ~agents'[new].disabled
             /\ dom'.observer[new] /\ dom'.display[new] = displayFor(composeBox)
        /\ \A a \in Agents : checkComposeBox(a) => a = jeepBeachScript]_vars
  /\ [](\A a \in Agents \ {jeepBeachScript} :
          /\ ~dom.observer[a] /\ dom.checkTimeout[a] = NoTimer
          /\ \A i \in DOMAIN dom.buttons : dom.buttons[i] # a)

\* C28 witness: the second agent has replaced the first a settle delay after the
\* navigation was seen, and a later mutation has scheduled its check, not the old one's
C28_Witness ==
  /\ Len(agents) = 2 /\ jeepBeachScript = 2 /\ location = dom.lastUrl
  /\ ~dom.observer[1] /\ dom.observer[2]
  /\ dom.checkTimeout = <<NoTimer, DebounceDelay>>

\* C29: the control is single-instance. Whatever constructions, teardowns and
\* navigations have happened, the document holds exactly one element with the
\* control's id, and it belongs to the most recently constructed agent.
C29_SingleControl ==
  /\ dom.buttons = <<Len(agents)>>
  /\ jeepBeachScript = Len(agents) /\ domButton = Len(agents)

\* C29 witness: two navigations were seen inside one settle delay, both timers have
\* fired and the third agent owns the one control
C29_Witness ==
  /\ Len(agents) = 3 /\ dom.buttons = <<3>> /\ dom.initTimers = <<>>

----------------------------------------------------------------------------
\* SpecToast: the toasts of one tab in time. The agent shows toasts, each with its
\* three timers; adding and removing the element is a mutation its observer sees.

MaxToasts == 3      \* toasts shown
ToastSteps == {1000}

\* the element showToast creates, and the timers it starts (age: history, ms since shown)
newToast ==
  [inDom |-> TRUE, show |-> FALSE, showIn |-> ShowDelay, hideIn |-> ToastDuration,
   removeIn |-> NoTimer, age |-> 0]

\* the toasts that are in the document
InDom(toasts) == {i \in DOMAIN toasts : toasts[i].inDom}

\* document.getElementById('jeepbeach-toast'): the first such element, or 0 for null
getElementById(toasts) ==
  IF InDom(toasts) = {} THEN 0
  ELSE CHOOSE i \in InDom(toasts) : \A j \in InDom(toasts) : i <= j

\* the element a timer of toast i acts on: the `toast` of its closure
timerTarget_byId(toasts, i) == IF getElementById(toasts) = 0 THEN i ELSE getElementById(toasts)
timerTarget(toasts, i) == i

\* GmailDOM.showToast(message, type): the element with the id is removed, the new
\* one is appended and its timers are started
showToast ==
  /\ Len(dom.toasts) < MaxToasts
  /\ \E t \in {AlreadyProcessingToast, ErrorToast(NoComposeBoxError)} : toast' = t
  /\ LET existingToast == getElementById(dom.toasts)
         removed == [i \in DOMAIN dom.toasts |->
                       IF i = existingToast
                       THEN [dom.toasts[i] EXCEPT !.inDom = FALSE] ELSE dom.toasts[i]]
     IN dom' = mutated([dom EXCEPT !.toasts = Append(removed, newToast)])
  /\ UNCHANGED <<agents, jeepBeachScript, domButton, pendingInit, location, composeBox,
                 inboundMessage>>
  /\ UNCHANGED <<chanVars, storeVars, bgVars, cacheVars>>

\* the 10 ms timer of toast i: toast.classList.add('jeepbeach-toast-show')
toastShowTimer(i) ==
  /\ i \in DOMAIN dom.toasts /\ dom.toasts[i].showIn = 0
  /\ LET e == timerTarget(dom.toasts, i) IN
     dom' = [dom EXCEPT !.toasts[i].showIn = NoTimer, !.toasts[e].show = TRUE]
  /\ UNCHANGED <<agents, jeepBeachScript, domButton, pendingInit, location, composeBox,
                 inboundMessage, toast>>
  /\ UNCHANGED <<chanVars, storeVars, bgVars, cacheVars>>

\* the duration timer of toast i: the class is removed and the 300 ms timer started
toastHideTimer(i) ==
  /\ i \in DOMAIN dom.toasts /\ dom.toasts[i].hideIn = 0
  /\ LET e == timerTarget(dom.toasts, i) IN
     dom' = [dom EXCEPT !.toasts[i].hideIn = NoTimer, !.toasts[i].removeIn = ExitTransition,
                        !.toasts[e].show = FALSE]
  /\ UNCHANGED <<agents, jeepBeachScript, domButton, pendingInit, location, composeBox,
                 inboundMessage, toast>>
  /\ UNCHANGED <<chanVars, storeVars, bgVars, cacheVars>>

\* the 300 ms timer of toast i: if (toast.parentNode) toast.parentNode.removeChild(toast)
toastRemoveTimer(i) ==
  /\ i \in DOMAIN dom.toasts /\ dom.toasts[i].removeIn = 0
  /\ LET e == timerTarget(dom.toasts, i)
         timerDone == [dom EXCEPT !.toasts[i].removeIn = NoTimer] IN
     IF dom.toasts[e].inDom
     THEN /\ dom' = mutated([timerDone EXCEPT !.toasts[e].inDom = FALSE])
          /\ toast' = NoToast
     ELSE /\ dom' = timerDone
          /\ UNCHANGED toast
  /\ UNCHANGED <<agents, jeepBeachScript, domButton, pendingInit, location, composeBox,
                 inboundMessage>>
  /\ UNCHANGED <<chanVars, storeVars, bgVars, cacheVars>>

toastElapse == elapseBy(ToastSteps)

ToastInit ==
  /\ PageAtRest /\ ChanAtRest /\ StoreAtRest /\ BgAtRest /\ CacheAtRest
  /\ sync = initializeSettings(EmptyStore)

ToastNext ==
  \/ showToast
  \/ \E i \in DOMAIN dom.toasts : toastShowTimer(i)
  \/ \E i \in DOMAIN dom.toasts : toastHideTimer(i)
  \/ \E i \in DOMAIN dom.toasts : toastRemoveTimer(i)
  \/ \E a \in Agents : checkComposeBox(a)
  \/ toastElapse

SpecToast == ToastInit /\ [][ToastNext]_vars

\* C30: toasts are single-instance and self-dismissing. At most one toast element
\* is in the document, and it is the latest one; showing a toast removes the one
\* shown; a toast in the document is never older than its duration plus the exit
\* transition; and a timer of a toast changes no other toast, so the timers of an
\* earlier toast never hide or remove a later one.
C30_SingleSelfDismissingToast ==
  /\ [](/\ Cardinality(InDom(dom.toasts)) <= 1
        /\ \A i \in InDom(dom.toasts) :
             /\ i = Len(dom.toasts)
             /\ dom.toasts[i].age <= ToastDuration + ExitTransition
        /\ (toast = NoToast) = (InDom(dom.toasts) = {}))
  /\ [][/\ showToast => InDom(dom'.toasts) = {Len(dom.toasts) + 1}
        /\ \A i \in DOMAIN dom.toasts :
             (toastShowTimer(i) \/ toastHideTimer(i) \/ toastRemoveTimer(i)) =>
               \A j \in DOMAIN dom.toasts \ {i} : dom'.toasts[j] = dom.toasts[j]]_vars

\* C30 witness: a second toast was shown while the first was up; the first one's
\* duration has passed, its timers have run, and the second is still shown
C30_Witness ==
  /\ Len(dom.toasts) = 2 /\ InDom(dom.toasts) = {2}
  /\ dom.toasts[1].hideIn = NoTimer /\ dom.toasts[1].removeIn = NoTimer
  /\ dom.toasts[1].age > ToastDuration
  /\ dom.toasts[2].show /\ dom.toasts[2].age > 0

----------------------------------------------------------------------------
\* SpecLocate: GmailDOM.isComposeBoxPresent over documents. A document is the
\* list of its elements in document order; an element carries the compose
\* selectors it matches and what isVisible reads from it.

MaxElements == 2   \* elements of the document that match a compose selector

\* this.composeSelectors, by position
composeSelectors == 1..3

Styles ==
  { [display |-> "block", visibility |-> "visible", offsetWidth |-> 10, offsetHeight |-> 10],
    [display |-> "none", visibility |-> "visible", offsetWidth |-> 0, offsetHeight |-> 0],
    [display |-> "block", visibility |-> "hidden", offsetWidth |-> 10, offsetHeight |-> 10],
    [display |-> "block", visibility |-> "visible", offsetWidth |-> 10, offsetHeight |-> 0] }

Elements == {[matches |-> ms, style |-> st] : ms \in (SUBSET composeSelectors) \ {{}}, st \in Styles}
Documents == SeqsUpTo(Elements, MaxElements)

\* document.querySelector(selector): the first match in document order, 0 for null
querySelector(document, selector) ==
  LET found == {i \in 1..Len(document) : selector \in document[i].matches}
  IN IF found = {} THEN 0 ELSE CHOOSE i \in found : \A j \in found : i <= j

\* GmailDOM.isVisible(element)
isVisible(element) ==
  /\ element.style.display # "none"
  /\ element.style.visibility # "hidden"
  /\ element.style.offsetWidth > 0
  /\ element.style.offsetHeight > 0

\* GmailDOM.isComposeBoxPresent(), from selector s on: the element returned, 0 for null
RECURSIVE isComposeBoxPresent(_, _)
isComposeBoxPresent(document, s) ==
  IF s \notin composeSelectors THEN 0
  ELSE LET element == querySelector(document, s)
       IN IF element # 0 /\ isVisible(document[element]) THEN element
          ELSE isComposeBoxPresent(document, s + 1)

\* GmailDOM.getActiveComposeBox() on some document
getActiveComposeBox ==
  /\ \E document \in Documents :
       call' = [fn |-> "getActiveComposeBox", document |-> document,
                element |-> isComposeBoxPresent(document, 1)]
  /\ UNCHANGED <<fetches, lastGet, storeVars, bgVars, pageVars, chanVars>>

LocateInit ==
  /\ PageAtRest /\ ChanAtRest /\ StoreAtRest /\ BgAtRest /\ CacheAtRest
  /\ sync = initializeSettings(EmptyStore)

LocateNext == getActiveComposeBox

SpecLocate == LocateInit /\ [][LocateNext]_vars

\* the visible elements of a document that match selector s
VisibleMatches(document, s) ==
  {i \in 1..Len(document) : s \in document[i].matches /\ isVisible(document[i])}

\* C31: the surface located is the first visible element of the first selector, in
\* priority order, that has a visible match; none is returned only when no element
\* matching any selector is visible.
C31_FirstVisibleMatch ==
  call.fn = "getActiveComposeBox" =>
    LET document == call.document
        withVisible == {s \in composeSelectors : VisibleMatches(document, s) # {}} IN
    IF withVisible = {} THEN call.element = 0
    ELSE LET s == CHOOSE t \in withVisible : \A u \in withVisible : t <= u
         IN /\ call.element \in VisibleMatches(document, s)
            /\ \A j \in VisibleMatches(document, s) : call.element <= j

----------------------------------------------------------------------------
\* SpecConcurrent: two messages handled by the one JeepBeachBackground at the same
\* time. Each handler runs to its next await; the frames of the handlers (their
\* type, position, and the settings.apiKey they read) are in call.handlers, and
\* this.llmProvider, the field both assign, is bg.llmProvider. The settings
\* surface may save another credential in between.

Handlers == 1..2

\* a handler frame; used and called are history: the credential of the completion
\* call the handler made, if it made one
HandlerIdle == [type |-> "none", pc |-> "idle", apiKey |-> Undefined, called |-> FALSE,
                used |-> Undefined]

\* handleMessage: a JB_DRAFT_REQUEST or a JB_TEST_LLM starts its handler
handlerStarted(h) ==
  /\ call.handlers[h].pc \in {"idle", "done"}
  /\ \E type \in {"JB_DRAFT_REQUEST", "JB_TEST_LLM"} :
       call' = [call EXCEPT !.handlers[h] =
                  [HandlerIdle EXCEPT !.type = type, !.pc = "getSyncData"]]
  /\ UNCHANGED <<fetches, lastGet, storeVars, bgVars, pageVars, chanVars>>

\* the completion call made through provider p: generateDraft and testConnection
\* throw before any request if (!this.apiKey)
completionCall(frame, p) ==
  [frame EXCEPT !.pc = "done", !.called = ~NoApiKey(p), !.used = IF NoApiKey(p) THEN Undefined ELSE p.apiKey]

\* `await this.storage.getSyncData()` returns to handler h, which runs to its next
\* await: handleTestLLM throws without a key, or assigns this.llmProvider and calls
\* testConnection; handleDraftRequest assigns this.llmProvider and then either
\* awaits the lookup or the content resolution, or (rewrite mode, no lookup) calls
\* generateDraft at once
handlerReadSettings(h) ==
  /\ call.handlers[h].pc = "getSyncData"
  /\ LET settings == getSyncData(sync)
         frame == [call.handlers[h] EXCEPT !.apiKey = settings["apiKey"]]
         provider == LLMProvider(settings["apiKey"], Undefined) IN
     IF frame.type = "JB_TEST_LLM" /\ NoApiKey(settings)
     THEN /\ call' = [call EXCEPT !.handlers[h] = [frame EXCEPT !.pc = "done"]]
          /\ UNCHANGED bg
     ELSE /\ bg' = [bg EXCEPT !.llmProvider = provider]
          /\ \E suspended \in BOOLEAN :
               /\ suspended => frame.type = "JB_DRAFT_REQUEST"
               /\ call' = [call EXCEPT !.handlers[h] =
                             IF suspended THEN [frame EXCEPT !.pc = "generateDraft"]
                             ELSE completionCall(frame, provider)]
  /\ UNCHANGED <<variant, tabMessages, netLog>>
  /\ UNCHANGED <<fetches, lastGet, storeVars, pageVars, chanVars>>

\* handleDraftRequest of handler h resumes after its awaits:
\* await this.llmProvider.generateDraft(...), on the provider the field holds now
handlerCalledGenerateDraft(h) ==
  /\ call.handlers[h].pc = "generateDraft"
  /\ call' = [call EXCEPT !.handlers[h] = completionCall(@, bg.llmProvider)]
  /\ UNCHANGED <<fetches, lastGet, storeVars, bgVars, pageVars, chanVars>>

\* the settings surface saves a credential
credentialSaved ==
  \E apiKey \in Credentials \ {Undefined} : optionsSave([PageForm EXCEPT !.apiKey = apiKey])

ConcurrentInit ==
  /\ PageAtRest /\ ChanAtRest /\ StoreAtRest /\ BgAtRest
  /\ fetches = {} /\ lastGet = NoGet
  /\ call = [fn |-> "handleMessage", handlers |-> [h \in Handlers |-> HandlerIdle]]
  /\ sync = initializeSettings(EmptyStore)

ConcurrentNext ==
  \/ \E h \in Handlers : handlerStarted(h)
  \/ \E h \in Handlers : handlerReadSettings(h)
  \/ \E h \in Handlers : handlerCalledGenerateDraft(h)
  \/ credentialSaved

SpecConcurrent == ConcurrentInit /\ [][ConcurrentNext]_vars

\* C34: with two requests handled concurrently, the completion call of each is
\* made with the credential that the same request read from the settings store.
C34_OwnCredentialUsed ==
  \A h \in Handlers :
    LET frame == call.handlers[h] IN
    /\ frame.called => frame.used = frame.apiKey
    /\ (frame.pc = "done" /\ ~frame.called) => NoApiKey(frame)

----------------------------------------------------------------------------
\* SpecHandover: the round trip of SpecRoundTrip through part_001, with the
\* settings surface saving other settings while a request is on its way.

HandoverForms ==
  {PageForm, [PageForm EXCEPT !.tone = "formal", !.useGmailApi = "true"]}

HandoverInit ==
  /\ RoundTripInit
  /\ variant = "part_001"
  /\ sync = saveSettings(initializeSettings(EmptyStore), PageForm)

HandoverNext ==
  \/ RoundTripNext
  \/ \E form \in HandoverForms : optionsSave(form)

SpecHandover == HandoverInit /\ [][HandoverNext]_vars

\* C35: the request is handed over by value: the rich-context lookup is attempted
\* or not by the useGmailApi the request carries, and the prompt is built from the
\* tone and the fallback message the request carries, whatever has been saved in
\* the settings store since the request was dispatched.
C35_HandedOverByValue ==
  [][/\ (getSyncDataReturned /\ bg'.pc # "catch") =>
          ((bg'.pc = "fetchGmailContext") <=> lookupAttempted(bg.request.payload, bg.request))
     /\ (generateDraftReturned /\ bg'.response # "not called") =>
          /\ bg'.prompt[6] = bg.request.payload.tone
          /\ bg'.prompt[8] = bg.request.payload.fallbackMessage]_vars

----------------------------------------------------------------------------
\* SpecInit: StorageManager.initializeSettings in its two steps, the read
\* (`await this.getSyncData()`) and the write (`await this.setSyncData(updated)`),
\* run by the constructor of JeepBeachBackground each time the service worker
\* starts, while the settings surface saves. call holds the frame of the run.

\* the forms the settings surface saves here
InitForms == {[form EXCEPT !.apiKey = apiKey] : form \in Forms, apiKey \in {"sk-test", "sk-other"}}

\* const needsUpdate = this.syncKeys.some(key => current[key] === undefined)
needsUpdate(current) == \E k \in syncKeys : current[k] = Undefined

\* const updated = { ...defaults, ...current }
updated(current) ==
  [k \in syncKeys |-> IF current[k] = Undefined THEN getDefaultSettings[k] ELSE current[k]]

\* initializeSettings, to the return of its read
initializeSettingsRead ==
  /\ call.pc \in {"idle", "done"}
  /\ call' = [fn |-> "initializeSettings", pc |-> "setSyncData",
              current |-> getSyncData(sync)]
  /\ UNCHANGED <<fetches, lastGet, storeVars, bgVars, pageVars, chanVars>>

\* initializeSettings, from the return of its read to its end
initializeSettingsWrite ==
  /\ call.pc = "setSyncData"
  /\ sync' = IF needsUpdate(call.current) THEN storageSet(sync, updated(call.current)) ELSE sync
  /\ call' = [call EXCEPT !.pc = "done"]
  /\ UNCHANGED <<cache, now, fetches, lastGet, bgVars, pageVars, chanVars>>

\* options.js saveSettings writes a form
settingsSaved == \E form \in InitForms : optionsSave(form)

InitInit ==
  /\ PageAtRest /\ ChanAtRest /\ StoreAtRest /\ BgAtRest
  /\ fetches = {} /\ lastGet = NoGet
  /\ call = [fn |-> "initializeSettings", pc |-> "idle", current |-> getSyncData(EmptyStore)]
  /\ sync = EmptyStore

InitNext == initializeSettingsRead \/ initializeSettingsWrite \/ settingsSaved

SpecInit == InitInit /\ [][InitNext]_vars

\* C39: initializeSettings loses no value: its write changes only keys that were
\* undefined in the store, also when a saveSettings ran between its read and its
\* write; and a second run changes nothing.
C39_InitKeepsValues ==
  [][initializeSettingsWrite =>
       /\ \A k \in StoreKeys : sync[k] # Undefined => sync'[k] = sync[k]
       /\ initializeSettings(sync') = sync']_vars

====
